---- MODULE Spec2Model ----
(***************************************************************************)
(* Model of the study-group frontend.                                      *)
(*                                                                         *)
(* Spec: the RoomManager view-model of                                     *)
(* src/student/scripts/study-group-inside/room-manager.js.  Its fields are *)
(* the variables currentRoomData, isOwner, participants and isLoading.     *)
(* Every async method is a sequence of steps, one per macrotask: a step    *)
(* runs from the event that resumes the method (a user action, a settled   *)
(* request) to the next await of a collaborator.  Invocations in flight    *)
(* live in `calls`; the invocation that settled last is summarised in      *)
(* `last`.  FairSpec is the loading part of it with collaborators whose    *)
(* every call settles.                                                     *)
(*                                                                         *)
(* TopicsSpec: togglePostLike and getTopicPosts of                         *)
(* src/student/scripts/topicsClient.js.                                    *)
(* ProfileSpec: saveProfile and the edit modal of the profile script.      *)
(* AdminSpec: the auth callback and checkPageAccess of                     *)
(* src/admin/js/admin-auth.js.                                             *)
(***************************************************************************)
EXTENDS Integers, Sequences, FiniteSets, TLC

(***************************************************************************)
(* Bounds                                                                  *)
(***************************************************************************)
\* number of invocations that can be suspended at an await at the same time
MaxCalls == 2
\* longest membership list the room has before the current user joins
MaxMembers == 2
\* number of operations started in one run that get as far as a request
MaxOps == 3
\* longest list of posts a posts GET returns
MaxPosts == 2

(***************************************************************************)
(* JavaScript values                                                       *)
(***************************************************************************)
\* JS null and undefined where a string is expected
null == "null"
\* this.currentRoomData = null
Null == [null |-> TRUE]

Falsy(v) == v \in {"", null}
\* a || b on strings
Or(a, b) == IF Falsy(a) THEN b ELSE a

Min(a, b) == IF a < b THEN a ELSE b

\* String.prototype.substring(0, n)
substring(s, n) == SubSeq(s, 1, Min(n, Len(s)))

RECURSIVE TrimStart(_)
TrimStart(s) ==
  IF s # "" /\ SubSeq(s, 1, 1) = " " THEN TrimStart(SubSeq(s, 2, Len(s))) ELSE s

RECURSIVE TrimEnd(_)
TrimEnd(s) ==
  IF s # "" /\ SubSeq(s, Len(s), Len(s)) = " "
  THEN TrimEnd(SubSeq(s, 1, Len(s) - 1)) ELSE s

\* String.prototype.trim()
trim(s) == TrimEnd(TrimStart(s))

\* Array.prototype.includes
includes(seq, x) == \E i \in 1..Len(seq) : seq[i] = x

\* Array.prototype.filter(Boolean) on a list of ids
filterBoolean(seq) == SelectSeq(seq, LAMBDA x : ~Falsy(x))

\* Array.from(new Set(seq)): first occurrences, in insertion order
RECURSIVE ArrayFromSet(_)
ArrayFromSet(seq) ==
  IF seq = <<>> THEN <<>>
  ELSE LET front == ArrayFromSet(SubSeq(seq, 1, Len(seq) - 1))
           x == seq[Len(seq)]
       IN IF includes(front, x) THEN front ELSE Append(front, x)

RECURSIVE Count(_, _)
Count(x, seq) ==
  IF seq = <<>> THEN 0
  ELSE (IF Head(seq) = x THEN 1 ELSE 0) + Count(x, Tail(seq))

SeqsUpTo(S, n) == UNION {[1..k -> S] : k \in 0..n}

\* JSON and JS values of any type, tagged by type: Null above, undefined,
\* booleans, numbers, strings, arrays, and objects as records of their own
\* properties
Undefined == [undefined |-> TRUE]
Bool(b) == [bool |-> b]
Num(n) == [num |-> n]
Str(s) == [str |-> s]
Arr(seq) == [arr |-> seq]
Obj(props) == [obj |-> props]

\* Array.isArray(v)
IsArray(v) == "arr" \in DOMAIN v

\* typeof v
TypeOf(v) ==
  IF v = Undefined THEN "undefined"
  ELSE IF "bool" \in DOMAIN v THEN "boolean"
  ELSE IF "num" \in DOMAIN v THEN "number"
  ELSE IF "str" \in DOMAIN v THEN "string"
  ELSE "object"

\* the truthiness of v, as !v, v && ..., v || ... test it
ToBoolean(v) ==
  IF v \in {Undefined, Null} THEN FALSE
  ELSE IF "bool" \in DOMAIN v THEN v.bool
  ELSE IF "num" \in DOMAIN v THEN v.num # 0
  ELSE IF "str" \in DOMAIN v THEN v.str # ""
  ELSE TRUE

\* a || b
OrElse(a, b) == IF ToBoolean(a) THEN a ELSE b

\* v.k where v is neither null nor undefined: an own property of an object,
\* undefined otherwise
Get(v, k) ==
  IF "obj" \in DOMAIN v /\ k \in DOMAIN v.obj THEN v.obj[k] ELSE Undefined

(***************************************************************************)
(* The environment: signed-in user, user directory, server answers         *)
(***************************************************************************)
\* this.userAuth.currentUser
currentUser == [uid |-> "u1", photoURL |-> null, photo |-> "me.png"]

Uids == {"u1", "user-0000002"}

\* ids a membership list can hold: user ids and the empty id
MemberIds == Uids \cup {""}

\* what userAuth.getUserDisplayInfo(s) knows about a user
DisplayInfo(uid) ==
  IF uid = "u1" THEN [displayName |-> "", avatar |-> "A", photo |-> null]
  ELSE [displayName |-> "Bob", avatar |-> "", photo |-> "p2.png"]

\* what a read of users/<uid> in the database can give for the photo
DbPhotos == {null, "db.png"}

\* room records the backend can hold when the page opens
RoomRecords ==
  {[id |-> "r1", creator |-> c, participants |-> m,
    name |-> "Algebra", description |-> "", deleted |-> FALSE] :
      c \in Uids, m \in SeqsUpTo(MemberIds, MaxMembers)}

\* the `room` query parameter of the page; "" when absent
RoomParams == {"", "r1"}

\* errors a request rejects with: transport message and parsed error body
NoBody == [present |-> FALSE, error |-> "", message |-> ""]
HttpErrors ==
  {[message |-> "HTTP 500", body |-> NoBody],
   [message |-> "HTTP 403",
    body |-> [present |-> TRUE, error |-> "Not the owner", message |-> ""]],
   [message |-> "HTTP 409",
    body |-> [present |-> TRUE, error |-> "", message |-> "Conflict"]]}

\* values of the settings form: the name input (absent or its text) and the
\* description input
NameInputs == {"absent", "", "  ", " Calculus "}
DescInputs == {"absent", " intro "}

VARIABLES
  currentRoomData,  \* RoomManager.currentRoomData
  isOwner,          \* RoomManager.isOwner
  participants,     \* RoomManager.participants
  isLoading,        \* RoomManager.isLoading
  participantsList, \* the rendered #participantsList element
  calls,            \* invocations suspended at an await
  last,             \* the invocation that the latest step settled, if any
  ops,              \* number of operations started so far (see MaxOps)
  timers,           \* redirect timers scheduled and not yet fired
  location,         \* window.location.href
  roomParam,        \* window.location.search `room` parameter
  server,           \* the room record the backend holds
  topicsCall,       \* the topicsClient invocation suspended at its request
  topicsLast,       \* the topicsClient invocation the latest step settled
  profile,          \* the profile page: module variables, modal, requests
  profileLast,      \* the saveProfile invocation the latest step ended
  admin,            \* the admin pages: adminUser, content, callbacks, timers
  adminLast         \* the auth callback run the latest step ended

vars == <<currentRoomData, isOwner, participants, isLoading, participantsList,
          calls, last, ops, timers, location, roomParam, server,
          topicsCall, topicsLast, profile, profileLast, admin, adminLast>>

profileVars == <<profile, profileLast>>

adminVars == <<admin, adminLast>>

Slots == 1..MaxCalls

\* an invocation: the method, the await it is suspended at, its arguments and
\* local variables, and what it did so far: the order in which the callbacks
\* of uids.map returned, how its join POST ended, the requests it issued, the
\* answers to its confirmation prompts
Idle ==
  [op |-> "none", pc |-> "idle", userId |-> "", nameInput |-> "",
   descInput |-> "", newName |-> "", newDesc |-> "", data |-> Null,
   joinParts |-> <<>>, uids |-> <<>>, stage |-> <<>>, recs |-> <<>>,
   order |-> <<>>, join |-> "none", reqs |-> <<>>, prompts |-> <<>>]

\* no request failed
NoErr == [message |-> "", body |-> [present |-> FALSE, error |-> "",
                                     message |-> ""]]

\* the fields of the view-model and the timers at the start of a step
NoBefore ==
  [currentRoomData |-> Null, isOwner |-> FALSE, participants |-> <<>>,
   timers |-> 0]

\* what is recorded of an invocation in the step that settles it: the
\* invocation, how its promise settled (value, or error message), how its
\* last request ended and with which error, the notifications it showed, the
\* redirects it scheduled, and the view-model at the start of the step
NoLast ==
  [op |-> "none", outcome |-> "none", value |-> Null, error |-> "",
   http |-> "none", err |-> NoErr, toasts |-> <<>>, redirects |-> 0,
   call |-> Idle, before |-> NoBefore]

\* no topicsClient invocation
NoTopicsCall == [fn |-> "none", arg |-> Undefined, reqs |-> <<>>]

\* what is recorded of a topicsClient invocation in the step that settles it:
\* the function and its argument, the requests it issued, how its request
\* ended ("none" when none was issued) and with which body, and how its promise
\* settled: the value, or the message and the status of the error
NoResp == [none |-> TRUE]
NoTopicsLast ==
  [fn |-> "none", arg |-> Undefined, reqs |-> <<>>, http |-> "none",
   resp |-> NoResp, outcome |-> "none", value |-> Undefined, error |-> "",
   status |-> 0]

\* the profile page when its script has run: the module variables isLoading
\* and currentPhotoURL, auth.currentUser (none before the session is
\* restored), the display of #editModal, the disabled flag of #saveProfileBtn,
\* the profile GETs and PUTs in flight, and the operations started so far
NoProfile ==
  [isLoading |-> FALSE, currentPhotoURL |-> null, user |-> FALSE,
   editModal |-> "none", saveBtnDisabled |-> FALSE, gets |-> 0,
   puts |-> <<>>, location |-> "profile.html", ops |-> 0]

\* what is recorded of a saveProfile invocation in the step that ends it: the
\* path it took, the notification it showed and the body of the PUT response
NoProfileLast ==
  [fn |-> "none", path |-> "none", notification |-> "", resp |-> NoResp]

\* the admin pages before a page is opened: the module variable adminUser,
\* the display of #adminContent, the access denied modal, whether the auth
\* callback is registered, its runs suspended at an await, the pending
\* checkPageAccess and login redirect timers, and the auth events so far
NoAdmin ==
  [adminUser |-> Null, adminContent |-> "none", accessDenied |-> FALSE,
   pathname |-> "", location |-> "", registered |-> FALSE, runs |-> <<>>,
   checks |-> 0, redirects |-> 0, events |-> 0]

\* what is recorded of a run of the auth callback in the step that ends it:
\* how it ended, the delay of the redirect it scheduled (0: at once, -1:
\* none), the status and the body of the dashboard response, and the
\* display of #adminContent at the start of the step
NoAdminLast ==
  [outcome |-> "none", delay |-> -1, status |-> 0, body |-> NoResp,
   content |-> "none"]

\* RoomManager constructor; the topicsClient module holds no state
Init ==
  /\ currentRoomData = Null
  /\ isOwner = FALSE
  /\ participants = <<>>
  /\ isLoading = TRUE
  /\ participantsList = <<>>
  /\ calls = [s \in Slots |-> Idle]
  /\ last = NoLast
  /\ ops = 0
  /\ timers = 0
  /\ location = "study-room-inside.html"
  /\ roomParam \in RoomParams
  /\ server \in RoomRecords
  /\ topicsCall = NoTopicsCall
  /\ topicsLast = NoTopicsLast
  /\ profile = NoProfile
  /\ profileLast = NoProfileLast
  /\ admin = NoAdmin
  /\ adminLast = NoAdminLast

\* an invocation that suspends takes the first free slot
FreeSlot(s) ==
  /\ calls[s].pc = "idle"
  /\ \A r \in Slots : r < s => calls[r].pc # "idle"

OnPage == location = "study-room-inside.html"

Call(op) == [Idle EXCEPT !.op = op]

Settled(c, outcome, value, error, http, err, toasts, redirects) ==
  [op |-> c.op, outcome |-> outcome, value |-> value, error |-> error,
   http |-> http, err |-> err, toasts |-> toasts, redirects |-> redirects,
   call |-> c,
   before |-> [currentRoomData |-> currentRoomData, isOwner |-> isOwner,
               participants |-> participants, timers |-> timers]]

Toast(msg, type) == [msg |-> msg, type |-> type]

(***************************************************************************)
(* Rendering                                                               *)
(***************************************************************************)
\* updateParticipantsList: the items of #participantsList
Rendered(ps, owner) ==
  [i \in 1..Len(ps) |->
     LET isCurrent == ps[i].id = currentUser.uid
     IN [id |-> ps[i].id,
         you |-> isCurrent,
         kick |-> owner /\ ~isCurrent,
         status |-> IF ps[i].isHost THEN "Host"
                    ELSE IF ps[i].inCall THEN "In Call" ELSE "Online"]]

(***************************************************************************)
(* loadRoomData                                                            *)
(***************************************************************************)
\* the user starts operations while the page is shown
UserActs == OnPage /\ ops < MaxOps /\ ops' = ops + 1

\* a step that resumes an invocation
Resumes(s, pc) == OnPage /\ calls[s].pc = pc /\ ops' = ops

\* the catch block of loadRoomData
LoadRejected(c, msg, http, err) ==
  /\ isLoading' = FALSE
  /\ last' = Settled(c, "rejected", Null, msg, http, err,
                     <<Toast("Failed to load room: " \o msg, "error")>>, 1)
  /\ timers' = timers + 1

\* an end of the load that leaves the isLoading flag as it is
FinishStillLoading(c, room) ==
  /\ isLoading' = isLoading
  /\ last' = IF c.op = "loadRoomData"
             THEN Settled(c, "resolved", room, "", "ok", NoErr, <<>>, 0)
             ELSE Settled(c, "resolved", Null, "", "none", NoErr, <<>>, 0)


\* the end of loadParticipantsInfo and, inside loadRoomData, of the load
Finish(c, room) ==
  IF c.op = "loadRoomData"
  THEN /\ isLoading' = FALSE
       /\ last' = Settled(c, "resolved", room, "", "ok", NoErr, <<>>, 0)
  ELSE /\ isLoading' = isLoading
       /\ last' = Settled(c, "resolved", Null, "", "none", NoErr, <<>>, 0)

\* loadParticipantsInfo that looks up the membership list as it is, without
\* new Set(...)
BeginParticipantsNoSet(c, room) ==
  IF room = Null \/ room.participants = <<>>
  THEN [c EXCEPT !.pc = "awaitSelf",
                 !.reqs = Append(@, "getUserDisplayInfo")]
  ELSE [c EXCEPT !.pc = "awaitInfos",
                 !.uids = filterBoolean(room.participants),
                 !.reqs = Append(@, "getUserDisplayInfos")]

\* loadParticipantsInfo up to its first await, for the room record held then
BeginParticipants(c, room) ==
  IF room = Null \/ room.participants = <<>>
  THEN [c EXCEPT !.pc = "awaitSelf",
                 !.reqs = Append(@, "getUserDisplayInfo")]
  ELSE [c EXCEPT !.pc = "awaitInfos",
                 !.uids = ArrayFromSet(filterBoolean(room.participants)),
                 !.reqs = Append(@, "getUserDisplayInfos")]

\* loadRoomData with no room id in the URL
LoadRoomDataNoId ==
  /\ UserActs
  /\ Falsy(roomParam)
  /\ LoadRejected(Call("loadRoomData"), "Room ID not found in URL", "none",
                  NoErr)
  /\ UNCHANGED <<currentRoomData, isOwner, participants, participantsList,
                 calls, location, roomParam, server>>
  /\ UNCHANGED <<topicsCall, topicsLast, profileVars, adminVars>>

\* the page runs one load at a time: loadRoomData when it opens,
\* loadParticipantsInfo to refresh the list
NoLoadRunning ==
  \A r \in Slots : calls[r].op \notin {"loadRoomData", "loadParticipantsInfo"}

\* loadRoomData that does not test the room id before the GET
LoadRoomDataUnchecked(s) ==
  /\ OnPage /\ ops < MaxOps /\ ops' = ops + 1
  /\ calls[s].pc = "idle"
  /\ \A r \in Slots : r < s => calls[r].pc # "idle"
  /\ \A r \in Slots :
       calls[r].op \notin {"loadRoomData", "loadParticipantsInfo"}
  /\ isLoading' = TRUE
  /\ calls' = [calls EXCEPT ![s] =
                 [Idle EXCEPT !.op = "loadRoomData", !.pc = "awaitGet",
                              !.reqs = <<"GET room">>]]
  /\ last' = NoLast
  /\ UNCHANGED <<currentRoomData, isOwner, participants, participantsList,
                 timers, location, roomParam, server>>
  /\ UNCHANGED <<topicsCall, topicsLast, profileVars, adminVars>>

\* loadRoomData that sends the join POST together with the room GET
LoadRoomDataJoinsFirst(s) ==
  /\ UserActs
  /\ NoLoadRunning
  /\ FreeSlot(s)
  /\ ~Falsy(roomParam)
  /\ isLoading' = TRUE
  /\ calls' = [calls EXCEPT ![s] =
                 [Call("loadRoomData") EXCEPT
                    !.pc = "awaitGet",
                    !.reqs = <<"GET room", "POST join">>]]
  /\ last' = NoLast
  /\ UNCHANGED <<currentRoomData, isOwner, participants, participantsList,
                 timers, location, roomParam, server>>
  /\ UNCHANGED <<topicsCall, topicsLast, profileVars, adminVars>>

\* loadRoomData up to the room GET
LoadRoomData(s) ==
  /\ UserActs
  /\ NoLoadRunning
  /\ FreeSlot(s)
  /\ ~Falsy(roomParam)
  /\ isLoading' = TRUE
  /\ calls' = [calls EXCEPT ![s] =
                 [Call("loadRoomData") EXCEPT !.pc = "awaitGet",
                                              !.reqs = <<"GET room">>]]
  /\ last' = NoLast
  /\ UNCHANGED <<currentRoomData, isOwner, participants, participantsList,
                 timers, location, roomParam, server>>
  /\ UNCHANGED <<topicsCall, topicsLast, profileVars, adminVars>>

\* the room GET rejects
LoadRoomFetchFails(s) ==
  /\ Resumes(s, "awaitGet")
  /\ \E err \in HttpErrors :
       LoadRejected(calls[s], err.message, "failed", err)
  /\ calls' = [calls EXCEPT ![s] = Idle]
  /\ UNCHANGED <<currentRoomData, isOwner, participants, participantsList,
                 location, roomParam, server>>
  /\ UNCHANGED <<topicsCall, topicsLast, profileVars, adminVars>>

\* the room GET resolves without a body, which is stored before it is tested
LoadRoomNoBodyStored(s) ==
  /\ OnPage /\ calls[s].pc = "awaitGet" /\ ops' = ops
  /\ isLoading' = FALSE
  /\ last' = Settled(calls[s], "rejected", Null, "No room data returned",
                     "nobody", NoErr,
                     <<Toast("Failed to load room: No room data returned",
                             "error")>>, 1)
  /\ timers' = timers + 1
  /\ currentRoomData' = Null
  /\ calls' = [calls EXCEPT ![s] = Idle]
  /\ UNCHANGED <<isOwner, participants, participantsList, location,
                 roomParam, server>>
  /\ UNCHANGED <<topicsCall, topicsLast, profileVars, adminVars>>

\* the room GET resolves without a body
LoadRoomNoBody(s) ==
  /\ Resumes(s, "awaitGet")
  /\ LoadRejected(calls[s], "No room data returned", "nobody", NoErr)
  /\ calls' = [calls EXCEPT ![s] = Idle]
  /\ UNCHANGED <<currentRoomData, isOwner, participants, participantsList,
                 location, roomParam, server>>
  /\ UNCHANGED <<topicsCall, topicsLast, profileVars, adminVars>>

\* the body of GET /rooms/:id
RoomOf(r) ==
  [id |-> r.id, creator |-> r.creator, participants |-> r.participants,
   name |-> r.name, description |-> r.description]

\* POST /rooms/:id/join on the backend
Joined(r, uid) ==
  IF includes(r.participants, uid) THEN r
  ELSE [r EXCEPT !.participants = Append(@, uid)]

\* autoJoinRoom without the membership test
AlreadyJoinedNever(room) == FALSE

\* autoJoinRoom: already a participant, skip joining
AlreadyJoined(room) == includes(room.participants, currentUser.uid)

\* the room GET resolves and the ownership flag is set whoever created the room
LoadRoomFetchedOwner(s) ==
  /\ OnPage /\ calls[s].pc = "awaitGet" /\ ops' = ops
  /\ ~server.deleted
  /\ LET data == RoomOf(server) IN
       /\ currentRoomData' = data
       /\ isOwner' = TRUE
       /\ IF AlreadyJoined(data)
          THEN /\ calls' = [calls EXCEPT ![s] =
                              BeginParticipants([@ EXCEPT !.data = data],
                                                data)]
               /\ participants' = <<>>
          ELSE /\ calls' = [calls EXCEPT ![s] =
                              [@ EXCEPT !.pc = "awaitJoin",
                                        !.data = data,
                                        !.joinParts = data.participants,
                                        !.reqs = Append(@, "POST join")]]
               /\ participants' = participants
  /\ last' = NoLast
  /\ UNCHANGED <<isLoading, participantsList, timers, location, roomParam,
                 server>>
  /\ UNCHANGED <<topicsCall, topicsLast, profileVars, adminVars>>

\* the room GET resolves with a room record: ownership, autoJoinRoom up to the
\* join POST or, when already a member, on into loadParticipantsInfo
LoadRoomFetched(s) ==
  /\ Resumes(s, "awaitGet")
  /\ ~server.deleted
  /\ LET data == RoomOf(server) IN
       /\ currentRoomData' = data
       /\ isOwner' = (data.creator = currentUser.uid)
       /\ IF AlreadyJoined(data)
          THEN /\ calls' = [calls EXCEPT ![s] =
                              BeginParticipants([@ EXCEPT !.data = data],
                                                data)]
               /\ participants' = <<>>
          ELSE /\ calls' = [calls EXCEPT ![s] =
                              [@ EXCEPT !.pc = "awaitJoin",
                                        !.data = data,
                                        !.joinParts = data.participants,
                                        !.reqs = Append(@, "POST join")]]
               /\ participants' = participants
  /\ last' = NoLast
  /\ UNCHANGED <<isLoading, participantsList, timers, location, roomParam,
                 server>>
  /\ UNCHANGED <<topicsCall, topicsLast, profileVars, adminVars>>

\* the join POST resolves with a body: the user is appended to the list
\* read before the POST
JoinSucceeds(s) ==
  /\ Resumes(s, "awaitJoin")
  /\ ~server.deleted
  /\ LET room == [currentRoomData EXCEPT
                    !.participants = Append(calls[s].joinParts,
                                            currentUser.uid)]
     IN /\ currentRoomData' = room
        /\ calls' = [calls EXCEPT ![s] =
                       BeginParticipants([@ EXCEPT !.join = "ok"], room)]
  /\ participants' = <<>>
  /\ server' = Joined(server, currentUser.uid)
  /\ last' = NoLast
  /\ UNCHANGED <<isOwner, isLoading, participantsList, timers, location,
                 roomParam>>
  /\ UNCHANGED <<topicsCall, topicsLast, profileVars, adminVars>>

\* the catch block of autoJoinRoom: the error is swallowed
JoinSwallowed(s, how) ==
  /\ calls' = [calls EXCEPT ![s] =
                 BeginParticipants([@ EXCEPT !.join = how], currentRoomData)]
  /\ participants' = <<>>
  /\ last' = NoLast
  /\ UNCHANGED <<currentRoomData, isOwner, isLoading, participantsList, timers,
                 location, roomParam>>

\* the join POST resolves with no body: reading participantCount of it throws
JoinNoBody(s) ==
  /\ Resumes(s, "awaitJoin")
  /\ JoinSwallowed(s, "nobody")
  /\ ~server.deleted
  /\ server' = Joined(server, currentUser.uid)
  /\ UNCHANGED <<topicsCall, topicsLast, profileVars, adminVars>>

\* the join POST rejects and autoJoinRoom lets the error through to the catch
\* block of loadRoomData
JoinFailsRethrown(s) ==
  /\ OnPage /\ calls[s].pc = "awaitJoin" /\ ops' = ops
  /\ \E err \in HttpErrors :
       /\ isLoading' = FALSE
       /\ last' = Settled([calls[s] EXCEPT !.join = "failed"], "rejected",
                          Null, err.message, "failed", err,
                          <<Toast("Failed to load room: " \o err.message,
                                  "error")>>, 1)
       /\ timers' = timers + 1
  /\ calls' = [calls EXCEPT ![s] = Idle]
  /\ UNCHANGED <<currentRoomData, isOwner, participants, participantsList,
                 location, roomParam, server>>
  /\ UNCHANGED <<topicsCall, topicsLast, profileVars, adminVars>>

\* the join POST rejects
JoinFails(s) ==
  /\ Resumes(s, "awaitJoin")
  /\ JoinSwallowed(s, "failed")
  /\ server' = server
  /\ UNCHANGED <<topicsCall, topicsLast, profileVars, adminVars>>

(***************************************************************************)
(* loadParticipantsInfo                                                    *)
(***************************************************************************)
Participant(id, name, avatar, photo, isHost) ==
  [id |-> id, name |-> name, avatar |-> avatar, photo |-> photo,
   status |-> "online", isHost |-> isHost, inCall |-> FALSE]

\* a fallback record that is never the host
FallbackNeverHost(uid, creator) ==
  [id |-> uid, name |-> substring(uid, 8), avatar |-> "U", photo |-> null,
   status |-> "online", isHost |-> FALSE, inCall |-> FALSE]

\* the record of the inner catch block
Fallback(uid, creator) ==
  Participant(uid, substring(uid, 8), "U", null, creator = uid)

\* the record built from a display info and a photo
Built(uid, info, photo, creator) ==
  Participant(uid, Or(info.displayName, substring(uid, 8)),
              Or(info.avatar, "U"), photo, creator = uid)

\* the photo of the current user
OwnPhoto(info) ==
  Or(currentUser.photoURL, Or(currentUser.photo, Or(info.photo, null)))

\* the info used when the batch lookup has no entry and the single lookup
\* resolves
SingleInfo(uid) ==
  [displayName |-> DisplayInfo(uid).displayName, avatar |-> "U",
   photo |-> null]

\* one callback of uids.map from the point where its info is known: the
\* record when no database read is needed, else the record so far
AfterInfo(uid, info, creator) ==
  IF uid = currentUser.uid
  THEN [stage |-> "done", rec |-> Built(uid, info, OwnPhoto(info), creator)]
  ELSE IF ~Falsy(info.photo)
       THEN [stage |-> "done", rec |-> Built(uid, info, info.photo, creator)]
       ELSE [stage |-> "photo", rec |-> Built(uid, info, null, creator)]

\* every callback of uids.map has returned, from its try block ("done") or
\* from its catch block ("fallback")
AllDone(stage) == \A i \in 1..Len(stage) : stage[i] \in {"done", "fallback"}

\* loadParticipantsInfo invoked on its own
LoadParticipantsInfo(s) ==
  /\ UserActs
  /\ NoLoadRunning
  /\ FreeSlot(s)
  /\ calls' = [calls EXCEPT ![s] =
                 BeginParticipants(Call("loadParticipantsInfo"),
                                   currentRoomData)]
  /\ participants' = <<>>
  /\ last' = NoLast
  /\ UNCHANGED <<currentRoomData, isOwner, isLoading, participantsList, timers,
                 location, roomParam, server>>
  /\ UNCHANGED <<topicsCall, topicsLast, profileVars, adminVars>>

\* no participants: getUserDisplayInfo(currentUid) resolves, self only
SelfInfoResolves(s) ==
  /\ Resumes(s, "awaitSelf")
  /\ LET info == DisplayInfo(currentUser.uid)
         self == [id |-> currentUser.uid, name |-> info.displayName,
                  avatar |-> info.avatar,
                  photo |-> Or(currentUser.photoURL,
                               Or(currentUser.photo, null)),
                  status |-> "online", isHost |-> isOwner, inCall |-> FALSE]
     IN /\ participants' = <<self>>
        /\ participantsList' = Rendered(<<self>>, isOwner)
  /\ Finish(calls[s], currentRoomData)
  /\ calls' = [calls EXCEPT ![s] = Idle]
  /\ UNCHANGED <<currentRoomData, isOwner, timers, location, roomParam,
                 server>>
  /\ UNCHANGED <<topicsCall, topicsLast, profileVars, adminVars>>

\* the outer catch block of loadParticipantsInfo
ParticipantsCaught(s) ==
  /\ Finish(calls[s], currentRoomData)
  /\ calls' = [calls EXCEPT ![s] = Idle]
  /\ UNCHANGED <<currentRoomData, isOwner, participants, participantsList,
                 timers, location, roomParam, server>>

\* getUserDisplayInfo(currentUid) rejects
SelfInfoFails(s) ==
  /\ Resumes(s, "awaitSelf")
  /\ ParticipantsCaught(s)
  /\ UNCHANGED <<topicsCall, topicsLast, profileVars, adminVars>>

\* getUserDisplayInfos(uids) rejects
InfosFail(s) ==
  /\ Resumes(s, "awaitInfos")
  /\ ParticipantsCaught(s)
  /\ UNCHANGED <<topicsCall, topicsLast, profileVars, adminVars>>

\* the callbacks of uids.map that returned in this step, in the order of uids
Returned(c) ==
  SelectSeq([i \in 1..Len(c.stage) |-> i],
            LAMBDA i : c.stage[i] \in {"done", "fallback"}
                         /\ ~includes(c.order, i))

\* Promise.all that resolves with the records in the order in which the
\* callbacks returned
AssignAsReturned(s, b) ==
  LET c == [b EXCEPT !.order = @ \o Returned(b)]
      recs == [k \in 1..Len(c.order) |-> c.recs[c.order[k]]]
  IN
  IF AllDone(c.stage)
  THEN /\ participants' = recs
       /\ participantsList' = Rendered(recs, isOwner)
       /\ Finish(c, currentRoomData)
       /\ calls' = [calls EXCEPT ![s] = Idle]
  ELSE /\ calls' = [calls EXCEPT ![s] = c]
       /\ last' = NoLast
       /\ UNCHANGED <<participants, participantsList, isLoading>>


\* Promise.all resolves: the records in the order of uids, then the render
Assign(s, b) ==
  LET c == [b EXCEPT !.order = @ \o Returned(b)] IN
  IF AllDone(c.stage)
  THEN /\ participants' = c.recs
       /\ participantsList' = Rendered(c.recs, isOwner)
       /\ Finish(c, currentRoomData)
       /\ calls' = [calls EXCEPT ![s] = Idle]
  ELSE /\ calls' = [calls EXCEPT ![s] = c]
       /\ last' = NoLast
       /\ UNCHANGED <<participants, participantsList, isLoading>>

\* getUserDisplayInfos(uids) resolves with the infos of `found`: every
\* callback of uids.map runs to its first await
InfosResolve(s) ==
  /\ Resumes(s, "awaitInfos")
  /\ \E found \in SUBSET {calls[s].uids[i] : i \in 1..Len(calls[s].uids)} :
       LET uids == calls[s].uids
           creator == currentRoomData.creator
           step(uid) ==
             IF uid \in found THEN AfterInfo(uid, DisplayInfo(uid), creator)
             ELSE [stage |-> "lookup", rec |-> Fallback(uid, creator)]
           c == [calls[s] EXCEPT
                   !.pc = "awaitAll",
                   !.stage = [i \in 1..Len(uids) |-> step(uids[i]).stage],
                   !.recs = [i \in 1..Len(uids) |-> step(uids[i]).rec]]
       IN Assign(s, c)
  /\ UNCHANGED <<currentRoomData, isOwner, timers, location, roomParam,
                 server>>
  /\ UNCHANGED <<topicsCall, topicsLast, profileVars, adminVars>>

\* the single lookup of uids[i] resolves
LookupResolves(s, i) ==
  /\ Resumes(s, "awaitAll")
  /\ i \in 1..Len(calls[s].uids)
  /\ calls[s].stage[i] = "lookup"
  /\ LET uid == calls[s].uids[i]
         next == AfterInfo(uid, SingleInfo(uid), currentRoomData.creator)
     IN Assign(s, [calls[s] EXCEPT !.stage[i] = next.stage,
                                   !.recs[i] = next.rec])
  /\ UNCHANGED <<currentRoomData, isOwner, timers, location, roomParam,
                 server>>
  /\ UNCHANGED <<topicsCall, topicsLast, profileVars, adminVars>>

\* the single lookup of uids[i] rejects with no inner catch block: Promise.all
\* rejects and the outer catch block ends loadParticipantsInfo
LookupFailsAborts(s, i) ==
  /\ OnPage /\ calls[s].pc = "awaitAll" /\ ops' = ops
  /\ i \in 1..Len(calls[s].uids)
  /\ calls[s].stage[i] = "lookup"
  /\ Finish(calls[s], currentRoomData)
  /\ calls' = [calls EXCEPT ![s] = Idle]
  /\ UNCHANGED <<currentRoomData, isOwner, participants, participantsList,
                 timers, location, roomParam, server>>
  /\ UNCHANGED <<topicsCall, topicsLast, profileVars, adminVars>>

\* the single lookup of uids[i] rejects: the fallback record
LookupFails(s, i) ==
  /\ Resumes(s, "awaitAll")
  /\ i \in 1..Len(calls[s].uids)
  /\ calls[s].stage[i] = "lookup"
  /\ Assign(s, [calls[s] EXCEPT
                  !.stage[i] = "fallback",
                  !.recs[i] = Fallback(calls[s].uids[i],
                                       currentRoomData.creator)])
  /\ UNCHANGED <<currentRoomData, isOwner, timers, location, roomParam,
                 server>>
  /\ UNCHANGED <<topicsCall, topicsLast, profileVars, adminVars>>

\* the database read of the photo of uids[i] settles; a failed read and a
\* document without photo leave the photo null
PhotoSettles(s, i) ==
  /\ Resumes(s, "awaitAll")
  /\ i \in 1..Len(calls[s].uids)
  /\ calls[s].stage[i] = "photo"
  /\ \E photo \in DbPhotos :
       Assign(s, [calls[s] EXCEPT
                    !.stage[i] = "done",
                    !.recs[i] = [@ EXCEPT
                      !.photo = photo,
                      !.isHost = (currentRoomData.creator
                                    = calls[s].uids[i])]])
  /\ UNCHANGED <<currentRoomData, isOwner, timers, location, roomParam,
                 server>>
  /\ UNCHANGED <<topicsCall, topicsLast, profileVars, adminVars>>

\* updateParticipantCallStatus(userId, inCall)
UpdateParticipantCallStatus(userId, inCall) ==
  /\ OnPage
  /\ ops < MaxOps
  /\ ops' = ops
  /\ \E i \in 1..Len(participants) :
       /\ participants[i].id = userId
       /\ \A j \in 1..(i - 1) : participants[j].id # userId
       /\ participants' = [participants EXCEPT ![i].inCall = inCall]
  /\ participantsList' = Rendered(participants', isOwner)
  /\ last' = NoLast
  /\ UNCHANGED <<currentRoomData, isOwner, isLoading, calls, timers, location,
                 roomParam, server>>
  /\ UNCHANGED <<topicsCall, topicsLast, profileVars, adminVars>>


(***************************************************************************)
(* saveRoomSettings                                                        *)
(***************************************************************************)
\* an operation that ends before any request and any change, showing `toasts`
Local(c, toasts) ==
  /\ OnPage
  /\ ops < MaxOps
  /\ last' = Settled(c, "resolved", Null, "", "none", NoErr, toasts, 0)
  /\ UNCHANGED <<currentRoomData, isOwner, participants, isLoading,
                 participantsList, calls, ops, timers, location, roomParam,
                 server>>

\* (err.body && (err.body.error || err.body.message)) || err.message ||
\* "unknown error"
SaveErrorMessage(err) ==
  Or(IF err.body.present THEN Or(err.body.error, err.body.message) ELSE "",
     Or(err.message, "unknown error"))

\* saveRoomSettings before a room is loaded
SaveNotLoaded ==
  /\ currentRoomData = Null
  /\ Local(Call("saveRoomSettings"),
           <<Toast("Room data not loaded", "error")>>)
  /\ UNCHANGED <<topicsCall, topicsLast, profileVars, adminVars>>

\* saveRoomSettings with no name input in the page, or an empty name
SaveRejected ==
  /\ currentRoomData # Null
  /\ \E name \in NameInputs :
       \/ /\ name = "absent"
          /\ Local([Call("saveRoomSettings") EXCEPT !.nameInput = name],
                   <<Toast("Failed to save settings: "
                             \o "Room name input not found", "error")>>)
       \/ /\ name # "absent"
          /\ Falsy(trim(name))
          /\ Local([Call("saveRoomSettings") EXCEPT !.nameInput = name],
                   <<Toast("Room name cannot be empty", "error")>>)
  /\ UNCHANGED <<topicsCall, topicsLast, profileVars, adminVars>>

\* saveRoomSettings up to the PUT
SaveRoomSettings(s) ==
  /\ UserActs
  /\ FreeSlot(s)
  /\ currentRoomData # Null
  /\ \E name \in NameInputs \ {"absent"}, desc \in DescInputs :
       /\ ~Falsy(trim(name))
       /\ calls' = [calls EXCEPT ![s] =
            [Call("saveRoomSettings") EXCEPT
                         !.pc = "awaitPut",
                         !.nameInput = name,
                         !.descInput = desc,
                         !.newName = trim(name),
                         !.newDesc = IF desc = "absent" THEN ""
                                     ELSE trim(desc),
                         !.reqs = <<"PUT room">>]]
  /\ last' = NoLast
  /\ UNCHANGED <<currentRoomData, isOwner, participants, isLoading,
                 participantsList, timers, location, roomParam, server>>
  /\ UNCHANGED <<topicsCall, topicsLast, profileVars, adminVars>>

\* the PUT resolves
SaveSucceeds(s) ==
  /\ Resumes(s, "awaitPut")
  /\ currentRoomData' = [currentRoomData EXCEPT
                           !.name = calls[s].newName,
                           !.description = calls[s].newDesc]
  /\ ~server.deleted
  /\ server' = [server EXCEPT !.name = calls[s].newName,
                              !.description = calls[s].newDesc]
  /\ last' = Settled(calls[s], "resolved", Null, "", "ok", NoErr,
                     <<Toast("Room settings updated successfully",
                             "success")>>, 0)
  /\ calls' = [calls EXCEPT ![s] = Idle]
  /\ UNCHANGED <<isOwner, participants, isLoading, participantsList, timers,
                 location, roomParam>>
  /\ UNCHANGED <<topicsCall, topicsLast, profileVars, adminVars>>

\* the PUT rejects
SaveFails(s) ==
  /\ Resumes(s, "awaitPut")
  /\ \E err \in HttpErrors :
       last' = Settled(calls[s], "resolved", Null, "", "failed", err,
                       <<Toast("Failed to save settings: "
                                 \o SaveErrorMessage(err), "error")>>, 0)
  /\ calls' = [calls EXCEPT ![s] = Idle]
  /\ UNCHANGED <<currentRoomData, isOwner, participants, isLoading,
                 participantsList, timers, location, roomParam, server>>
  /\ UNCHANGED <<topicsCall, topicsLast, profileVars, adminVars>>

(***************************************************************************)
(* deleteRoom                                                              *)
(***************************************************************************)
\* (err && err.message) || "unknown error"
DeleteErrorMessage(err) == Or(err.message, "unknown error")

\* deleteRoom by a user who is not the owner
DeleteNotOwner ==
  /\ ~isOwner
  /\ Local(Call("deleteRoom"),
           <<Toast("Only the room owner can delete this room.", "error")>>)
  /\ UNCHANGED <<topicsCall, topicsLast, profileVars, adminVars>>

\* deleteRoom by the owner who answers no to the prompt
DeleteDeclined ==
  /\ isOwner
  /\ Local([Call("deleteRoom") EXCEPT !.prompts = <<FALSE>>], <<>>)
  /\ UNCHANGED <<topicsCall, topicsLast, profileVars, adminVars>>

\* deleteRoom that issues the DELETE whatever the answer to the prompt
DeleteRoomAnyAnswer(s) ==
  /\ OnPage /\ ops < MaxOps /\ ops' = ops + 1
  /\ calls[s].pc = "idle"
  /\ \A r \in Slots : r < s => calls[r].pc # "idle"
  /\ isOwner
  /\ \E answer \in BOOLEAN :
       calls' = [calls EXCEPT ![s] =
                   [Idle EXCEPT !.op = "deleteRoom", !.pc = "awaitDelete",
                                !.prompts = <<answer>>,
                                !.reqs = <<"DELETE room">>]]
  /\ last' = NoLast
  /\ UNCHANGED <<currentRoomData, isOwner, participants, isLoading,
                 participantsList, timers, location, roomParam, server>>
  /\ UNCHANGED <<topicsCall, topicsLast, profileVars, adminVars>>

\* deleteRoom by the owner who answers yes, up to the DELETE
DeleteRoom(s) ==
  /\ UserActs
  /\ FreeSlot(s)
  /\ isOwner
  /\ calls' = [calls EXCEPT ![s] =
                 [Call("deleteRoom") EXCEPT
                              !.pc = "awaitDelete",
                              !.prompts = <<TRUE>>,
                              !.reqs = <<"DELETE room">>]]
  /\ last' = NoLast
  /\ UNCHANGED <<currentRoomData, isOwner, participants, isLoading,
                 participantsList, timers, location, roomParam, server>>
  /\ UNCHANGED <<topicsCall, topicsLast, profileVars, adminVars>>

\* the DELETE resolves: the redirect is scheduled
DeleteSucceeds(s) ==
  /\ Resumes(s, "awaitDelete")
  /\ ~server.deleted
  /\ server' = [server EXCEPT !.deleted = TRUE]
  /\ last' = Settled(calls[s], "resolved", Null, "", "ok", NoErr,
                     <<Toast("Room deleted successfully! Redirecting...",
                             "success")>>, 1)
  /\ timers' = timers + 1
  /\ calls' = [calls EXCEPT ![s] = Idle]
  /\ UNCHANGED <<currentRoomData, isOwner, participants, isLoading,
                 participantsList, location, roomParam>>
  /\ UNCHANGED <<topicsCall, topicsLast, profileVars, adminVars>>

\* the DELETE rejects
DeleteFails(s) ==
  /\ Resumes(s, "awaitDelete")
  /\ \E err \in HttpErrors :
       last' = Settled(calls[s], "resolved", Null, "", "failed", err,
                       <<Toast("Could not delete room: "
                                 \o DeleteErrorMessage(err), "error")>>, 0)
  /\ calls' = [calls EXCEPT ![s] = Idle]
  /\ UNCHANGED <<currentRoomData, isOwner, participants, isLoading,
                 participantsList, timers, location, roomParam, server>>
  /\ UNCHANGED <<topicsCall, topicsLast, profileVars, adminVars>>

(***************************************************************************)
(* kickParticipant                                                         *)
(***************************************************************************)
\* err.message || "unknown error"
KickErrorMessage(err) == Or(err.message, "unknown error")

\* this.participants.filter((p) => p.id === userId)
OnlyId(ps, userId) == SelectSeq(ps, LAMBDA p : p.id = userId)

\* this.participants.filter((p) => p.id !== userId)
WithoutId(ps, userId) == SelectSeq(ps, LAMBDA p : p.id # userId)

\* kickParticipant by a user who is not the owner
KickNotOwner(userId) ==
  /\ ~isOwner
  /\ Local([Call("kickParticipant") EXCEPT !.userId = userId],
           <<Toast("Only the room owner can remove participants.",
                   "error")>>)
  /\ UNCHANGED <<topicsCall, topicsLast, profileVars, adminVars>>

\* kickParticipant by the owner who answers no to the prompt
KickDeclined(userId) ==
  /\ isOwner
  /\ Local([Call("kickParticipant") EXCEPT !.userId = userId,
                                           !.prompts = <<FALSE>>], <<>>)
  /\ UNCHANGED <<topicsCall, topicsLast, profileVars, adminVars>>

\* kickParticipant without the ownership test
KickParticipantUnguarded(s, userId) ==
  /\ OnPage /\ ops < MaxOps /\ ops' = ops + 1
  /\ calls[s].pc = "idle"
  /\ \A r \in Slots : r < s => calls[r].pc # "idle"
  /\ calls' = [calls EXCEPT ![s] =
                 [Idle EXCEPT !.op = "kickParticipant", !.pc = "awaitKick",
                              !.userId = userId,
                              !.prompts = <<TRUE>>,
                              !.reqs = <<"DELETE participant">>]]
  /\ last' = NoLast
  /\ UNCHANGED <<currentRoomData, isOwner, participants, isLoading,
                 participantsList, timers, location, roomParam, server>>
  /\ UNCHANGED <<topicsCall, topicsLast, profileVars, adminVars>>

\* kickParticipant that returns while a removal of the same user is pending
KickParticipantOnce(s, userId) ==
  /\ UserActs
  /\ FreeSlot(s)
  /\ isOwner
  /\ \A r \in Slots :
       ~(calls[r].op = "kickParticipant" /\ calls[r].userId = userId)
  /\ calls' = [calls EXCEPT ![s] =
                 [Call("kickParticipant") EXCEPT
                              !.pc = "awaitKick",
                              !.userId = userId,
                              !.prompts = <<TRUE>>,
                              !.reqs = <<"DELETE participant">>]]
  /\ last' = NoLast
  /\ UNCHANGED <<currentRoomData, isOwner, participants, isLoading,
                 participantsList, timers, location, roomParam, server>>
  /\ UNCHANGED <<topicsCall, topicsLast, profileVars, adminVars>>


\* kickParticipant by the owner who answers yes, up to the DELETE
KickParticipant(s, userId) ==
  /\ UserActs
  /\ FreeSlot(s)
  /\ isOwner
  /\ calls' = [calls EXCEPT ![s] =
                 [Call("kickParticipant") EXCEPT
                              !.pc = "awaitKick",
                              !.userId = userId,
                              !.prompts = <<TRUE>>,
                              !.reqs = <<"DELETE participant">>]]
  /\ last' = NoLast
  /\ UNCHANGED <<currentRoomData, isOwner, participants, isLoading,
                 participantsList, timers, location, roomParam, server>>
  /\ UNCHANGED <<topicsCall, topicsLast, profileVars, adminVars>>

\* the DELETE resolves: the participant leaves the list, the list is rendered
KickSucceeds(s) ==
  /\ Resumes(s, "awaitKick")
  /\ participants' = WithoutId(participants, calls[s].userId)
  /\ participantsList' = Rendered(participants', isOwner)
  /\ ~server.deleted
  /\ server' = [server EXCEPT
                  !.participants = SelectSeq(@, LAMBDA u : u # calls[s].userId)]
  /\ last' = Settled(calls[s], "resolved", Null, "", "ok", NoErr,
                     <<Toast("Participant removed successfully",
                             "success")>>, 0)
  /\ calls' = [calls EXCEPT ![s] = Idle]
  /\ UNCHANGED <<currentRoomData, isOwner, isLoading, timers, location,
                 roomParam>>
  /\ UNCHANGED <<topicsCall, topicsLast, profileVars, adminVars>>

\* the DELETE rejects after the participant was removed from the list
KickFailsRemoved(s) ==
  /\ OnPage /\ calls[s].pc = "awaitKick" /\ ops' = ops
  /\ participants' = SelectSeq(participants,
                               LAMBDA p : p.id # calls[s].userId)
  /\ \E err \in HttpErrors :
       last' = Settled(calls[s], "resolved", Null, "", "failed", err,
                       <<Toast("Could not remove participant: "
                                 \o Or(err.message, "unknown error"),
                               "error")>>, 0)
  /\ calls' = [calls EXCEPT ![s] = Idle]
  /\ UNCHANGED <<currentRoomData, isOwner, isLoading, participantsList,
                 timers, location, roomParam, server>>
  /\ UNCHANGED <<topicsCall, topicsLast, profileVars, adminVars>>

\* the DELETE rejects
KickFails(s) ==
  /\ Resumes(s, "awaitKick")
  /\ \E err \in HttpErrors :
       last' = Settled(calls[s], "resolved", Null, "", "failed", err,
                       <<Toast("Could not remove participant: "
                                 \o KickErrorMessage(err), "error")>>, 0)
  /\ calls' = [calls EXCEPT ![s] = Idle]
  /\ UNCHANGED <<currentRoomData, isOwner, participants, isLoading,
                 participantsList, timers, location, roomParam, server>>
  /\ UNCHANGED <<topicsCall, topicsLast, profileVars, adminVars>>

(***************************************************************************)
(* The redirect timer                                                      *)
(***************************************************************************)
\* the setTimeout callback: window.location.href = "study-rooms.html"; the
\* page is unloaded, and with it its timers and suspended invocations
Redirect ==
  /\ OnPage
  /\ timers > 0
  /\ ops' = ops
  /\ last' = NoLast
  /\ location' = "study-rooms.html"
  /\ timers' = 0
  /\ calls' = [s \in Slots |-> Idle]
  /\ UNCHANGED <<currentRoomData, isOwner, participants, isLoading,
                 participantsList, roomParam, server>>
  /\ UNCHANGED <<topicsCall, topicsLast, profileVars, adminVars>>

Next ==
  \/ LoadRoomDataNoId
  \/ \E s \in Slots : LoadRoomData(s)
  \/ \E s \in Slots : LoadRoomFetchFails(s)
  \/ \E s \in Slots : LoadRoomNoBody(s)
  \/ \E s \in Slots : LoadRoomFetched(s)
  \/ \E s \in Slots : JoinSucceeds(s)
  \/ \E s \in Slots : JoinNoBody(s)
  \/ \E s \in Slots : JoinFails(s)
  \/ \E s \in Slots : LoadParticipantsInfo(s)
  \/ \E s \in Slots : SelfInfoResolves(s)
  \/ \E s \in Slots : SelfInfoFails(s)
  \/ \E s \in Slots : InfosFail(s)
  \/ \E s \in Slots : InfosResolve(s)
  \/ \E s \in Slots, i \in 1..(MaxMembers + 1) : LookupResolves(s, i)
  \/ \E s \in Slots, i \in 1..(MaxMembers + 1) : LookupFails(s, i)
  \/ \E s \in Slots, i \in 1..(MaxMembers + 1) : PhotoSettles(s, i)
  \/ \E u \in Uids, b \in BOOLEAN : UpdateParticipantCallStatus(u, b)
  \/ SaveNotLoaded
  \/ SaveRejected
  \/ \E s \in Slots : SaveRoomSettings(s)
  \/ \E s \in Slots : SaveSucceeds(s)
  \/ \E s \in Slots : SaveFails(s)
  \/ DeleteNotOwner
  \/ DeleteDeclined
  \/ \E s \in Slots : DeleteRoom(s)
  \/ \E s \in Slots : DeleteSucceeds(s)
  \/ \E s \in Slots : DeleteFails(s)
  \/ \E u \in Uids : KickNotOwner(u)
  \/ \E u \in Uids : KickDeclined(u)
  \/ \E s \in Slots, u \in Uids : KickParticipant(s, u)
  \/ \E s \in Slots : KickSucceeds(s)
  \/ \E s \in Slots : KickFails(s)
  \/ Redirect

Spec == Init /\ [][Next]_vars

(***************************************************************************)
(* Loading under collaborators whose every call settles                    *)
(***************************************************************************)
\* the answer of a collaborator (the API, userAuth, the database) to the call
\* that the load in slot s is suspended at
Answers(s) ==
  \/ LoadRoomFetchFails(s) \/ LoadRoomNoBody(s) \/ LoadRoomFetched(s)
  \/ JoinSucceeds(s) \/ JoinNoBody(s) \/ JoinFails(s)
  \/ SelfInfoResolves(s) \/ SelfInfoFails(s)
  \/ InfosFail(s) \/ InfosResolve(s)
  \/ \E i \in 1..(MaxMembers + 1) :
       LookupResolves(s, i) \/ LookupFails(s, i) \/ PhotoSettles(s, i)

\* the page that loads the room and refreshes the list of participants, and
\* is left when a redirect timer fires
LoadNext ==
  \/ LoadRoomDataNoId
  \/ \E s \in Slots : LoadRoomData(s)
  \/ \E s \in Slots : LoadParticipantsInfo(s)
  \/ \E s \in Slots : Answers(s)
  \/ Redirect

FairSpec == Init /\ [][LoadNext]_vars /\ \A s \in Slots : WF_vars(Answers(s))

(***************************************************************************)
(* topicsClient: togglePostLike                                            *)
(***************************************************************************)
roomVars == <<currentRoomData, isOwner, participants, isLoading,
              participantsList, calls, last, ops, timers, location, roomParam,
              server>>

\* arguments a caller passes as postId or topicId
PostIds == {Undefined, Null, Str(""), Str("p1"), Str("p2")}

\* errors a request of apiClient rejects with: message and status (0: none)
TopicsErrors ==
  {[message |-> "HTTP 500", status |-> 500],
   [message |-> "Failed to fetch", status |-> 0],
   [message |-> "", status |-> 0]}

\* bodies the like POST can resolve with
LikeBodies ==
  {Null, Str("ok"), Num(1), Bool(TRUE), Arr(<<>>), Obj(<<>>),
   Obj([liked |-> Bool(TRUE), likes |-> Num(3), post_id |-> Str("p9")]),
   Obj([liked |-> Bool(FALSE), likes |-> Num(0)]),
   Obj([liked |-> Str("true"), likes |-> Str("3")]),
   Obj([liked |-> Num(1), likes |-> Null])}

TopicsSettled(c, http, resp, outcome, value, error, status) ==
  [fn |-> c.fn, arg |-> c.arg, reqs |-> c.reqs, http |-> http, resp |-> resp,
   outcome |-> outcome, value |-> value, error |-> error, status |-> status]

\* an invocation that throws before its request
TopicsThrows(fn, arg, error) ==
  /\ topicsCall = NoTopicsCall
  /\ topicsLast' = TopicsSettled([fn |-> fn, arg |-> arg, reqs |-> <<>>],
                                 "none", NoResp, "rejected", Undefined, error,
                                 0)
  /\ UNCHANGED topicsCall
  /\ UNCHANGED <<roomVars, profileVars, adminVars>>

\* an invocation up to its request
TopicsRequests(fn, arg, req) ==
  /\ topicsCall = NoTopicsCall
  /\ topicsCall' = [fn |-> fn, arg |-> arg, reqs |-> <<req>>]
  /\ topicsLast' = NoTopicsLast
  /\ UNCHANGED <<roomVars, profileVars, adminVars>>

\* the invocation settles
TopicsSettles(http, resp, outcome, value, error, status) ==
  /\ topicsLast' = TopicsSettled(topicsCall, http, resp, outcome, value, error,
                                 status)
  /\ topicsCall' = NoTopicsCall
  /\ UNCHANGED <<roomVars, profileVars, adminVars>>

\* togglePostLike without a postId
TogglePostLikeNoId ==
  \E postId \in PostIds :
    /\ ~ToBoolean(postId)
    /\ TopicsThrows("togglePostLike", postId, "postId required")

\* togglePostLike that does not test its postId
TogglePostLikeUnchecked ==
  \E postId \in PostIds :
    /\ topicsCall = NoTopicsCall
    /\ topicsCall' = [fn |-> "togglePostLike", arg |-> postId,
                      reqs |-> <<"POST like">>]
    /\ topicsLast' = NoTopicsLast
    /\ UNCHANGED <<roomVars, profileVars, adminVars>>

\* togglePostLike up to the POST
TogglePostLike ==
  \E postId \in PostIds :
    /\ ToBoolean(postId)
    /\ TopicsRequests("togglePostLike", postId, "POST like")

\* the catch block of togglePostLike
LikeErrorMessage(message) == "Toggle like failed: " \o message

\* the value togglePostLike returns for a body that passed the validation
LikeResult(resp, postId) ==
  Obj([liked |-> Bool(Get(resp, "liked") = Bool(TRUE)),
       likes |-> IF TypeOf(Get(resp, "likes")) = "number"
                 THEN Get(resp, "likes") ELSE Num(0),
       post_id |-> OrElse(Get(resp, "post_id"), postId)])

\* the like POST resolves
LikeResolves ==
  /\ topicsCall.fn = "togglePostLike"
  /\ \E resp \in LikeBodies :
       IF ~ToBoolean(resp) \/ TypeOf(resp) # "object"
       THEN TopicsSettles("ok", resp, "rejected", Undefined,
                          LikeErrorMessage("Invalid response from server"), 0)
       ELSE TopicsSettles("ok", resp, "resolved",
                          LikeResult(resp, topicsCall.arg), "", 0)

\* the like POST rejects and togglePostLike tries once more
LikeFailsRetried ==
  /\ topicsCall.fn = "togglePostLike"
  /\ IF Len(topicsCall.reqs) < 2
     THEN /\ topicsCall' = [topicsCall EXCEPT
                              !.reqs = Append(@, "POST like")]
          /\ topicsLast' = NoTopicsLast
          /\ UNCHANGED <<roomVars, profileVars, adminVars>>
     ELSE \E err \in TopicsErrors :
            TopicsSettles("failed", NoResp, "rejected", Undefined,
                          LikeErrorMessage(err.message), err.status)

\* the like POST rejects
LikeFails ==
  /\ topicsCall.fn = "togglePostLike"
  /\ \E err \in TopicsErrors :
       TopicsSettles("failed", NoResp, "rejected", Undefined,
                     LikeErrorMessage(err.message), err.status)

(***************************************************************************)
(* topicsClient: getTopicPosts                                             *)
(***************************************************************************)
\* elements of a list of posts: posts, and values that are no objects
PostElements ==
  {Null, Str("junk"), Num(7),
   Obj([id |-> Str("a"), title |-> Str("T"), author_id |-> Str("u1"),
        likes |-> Num(2), created_at |-> Str("2024-01-01")]),
   Obj([id |-> Str("b"), authorId |-> Str("u2"), likes |-> Str("3"),
        comments |-> Num(4), created |-> Str("2024-02-02")]),
   Obj([id |-> Str("c"), content |-> Str("")])}

PostLists == {Arr(l) : l \in SeqsUpTo(PostElements, MaxPosts)}

\* bodies the posts GET can resolve with: a bare array, an object wrapping
\* one, a single value, an object whose posts property is no array
PostsBodies ==
  PostLists \cup {Obj([posts |-> l]) : l \in PostLists} \cup PostElements
    \cup {Undefined, Obj([posts |-> Str("x"), id |-> Str("w")])}

\* new Date().toISOString()
Now == Str("now")

\* the record built with likes taken as p.likes || 0
NormalizePostLikesAsIs(p) ==
  Obj([id |-> Get(p, "id"),
       title |-> OrElse(Get(p, "title"), Str("")),
       content |-> OrElse(Get(p, "content"), Str("")),
       author |-> OrElse(Get(p, "author"), Str("Anonymous")),
       author_id |-> OrElse(Get(p, "author_id"),
                            OrElse(Get(p, "authorId"), Null)),
       userId |-> OrElse(Get(p, "userId"), OrElse(Get(p, "author_id"), Null)),
       authorId |-> OrElse(Get(p, "author_id"),
                           OrElse(Get(p, "authorId"), Null)),
       created_at |-> OrElse(Get(p, "created_at"),
                             OrElse(Get(p, "created"), Now)),
       created |-> OrElse(Get(p, "created_at"),
                          OrElse(Get(p, "created"), Now)),
       likes |-> OrElse(Get(p, "likes"), Num(0)),
       comments |-> OrElse(Get(p, "comments"), Num(0)),
       author_avatar |-> OrElse(Get(p, "author_avatar"), Null)])

\* the record built for an element that is an object
NormalizePost(p) ==
  Obj([id |-> Get(p, "id"),
       title |-> OrElse(Get(p, "title"), Str("")),
       content |-> OrElse(Get(p, "content"), Str("")),
       author |-> OrElse(Get(p, "author"), Str("Anonymous")),
       author_id |-> OrElse(Get(p, "author_id"),
                            OrElse(Get(p, "authorId"), Null)),
       userId |-> OrElse(Get(p, "userId"), OrElse(Get(p, "author_id"), Null)),
       authorId |-> OrElse(Get(p, "author_id"),
                           OrElse(Get(p, "authorId"), Null)),
       created_at |-> OrElse(Get(p, "created_at"),
                             OrElse(Get(p, "created"), Now)),
       created |-> OrElse(Get(p, "created_at"),
                          OrElse(Get(p, "created"), Now)),
       likes |-> IF TypeOf(Get(p, "likes")) = "number"
                 THEN Get(p, "likes") ELSE Num(0),
       comments |-> OrElse(Get(p, "comments"), Num(0)),
       author_avatar |-> OrElse(Get(p, "author_avatar"), Null)])

\* the list of posts taken from a body that is neither null nor undefined
PostsOf(resp) ==
  LET posts == IF IsArray(resp) THEN resp
               ELSE OrElse(Get(resp, "posts"), resp)
  IN IF IsArray(posts) THEN posts.arr
     ELSE IF ToBoolean(resp) /\ TypeOf(resp) = "object" THEN <<resp>>
     ELSE <<>>

\* posts.map(...) that builds a record for every element, with no filter
NormalizePostsUnfiltered(posts) ==
  Arr([i \in 1..Len(posts) |-> NormalizePost(posts[i])])

\* posts.map(...).filter((p) => p !== null)
NormalizePosts(posts) ==
  LET kept == SelectSeq(posts,
                        LAMBDA p : ToBoolean(p) /\ TypeOf(p) = "object")
  IN Arr([i \in 1..Len(kept) |-> NormalizePost(kept[i])])

\* the catch block of getTopicPosts
PostsErrorMessage(message) == "GET /api/topics/:id/posts failed: " \o message

\* getTopicPosts without a topicId
GetTopicPostsNoId ==
  \E topicId \in PostIds :
    /\ ~ToBoolean(topicId)
    /\ TopicsThrows("getTopicPosts", topicId, "topicId required")

\* getTopicPosts up to the GET
GetTopicPosts ==
  \E topicId \in PostIds :
    /\ ToBoolean(topicId)
    /\ TopicsRequests("getTopicPosts", topicId, "GET posts")

\* the posts GET resolves; reading the posts property of null or undefined
\* throws a TypeError
PostsResolve ==
  /\ topicsCall.fn = "getTopicPosts"
  /\ \E resp \in PostsBodies :
       IF resp \in {Null, Undefined}
       THEN TopicsSettles("ok", resp, "rejected", Undefined,
                          PostsErrorMessage("TypeError"), 0)
       ELSE TopicsSettles("ok", resp, "resolved",
                          NormalizePosts(PostsOf(resp)), "", 0)

\* the posts GET rejects
PostsFail ==
  /\ topicsCall.fn = "getTopicPosts"
  /\ \E err \in TopicsErrors :
       TopicsSettles("failed", NoResp, "rejected", Undefined,
                     PostsErrorMessage(err.message), 0)

\* the page that uses topicsClient holds no RoomManager
TopicsInit ==
  /\ Init
  /\ roomParam = ""
  /\ server.creator = "u1"
  /\ server.participants = <<>>

TopicsNext ==
  \/ TogglePostLikeNoId
  \/ TogglePostLike
  \/ LikeResolves
  \/ LikeFails
  \/ GetTopicPostsNoId
  \/ GetTopicPosts
  \/ PostsResolve
  \/ PostsFail

TopicsSpec == TopicsInit /\ [][TopicsNext]_vars

(***************************************************************************)
(* The profile page: saveProfile, setLoading, the edit modal               *)
(***************************************************************************)
otherThanProfile == <<roomVars, topicsCall, topicsLast, adminVars>>

\* the bodies of the profile GET and PUT: none, a profile without photo, a
\* profile with a photo
ProfileBodies == {Null, [photo |-> null], [photo |-> "new.png"]}

ProfileOnPage == profile.location = "profile.html"

\* setLoading(loading)
setLoading(p, loading) ==
  [p EXCEPT !.isLoading = loading, !.saveBtnDisabled = loading]

\* closeEditModal()
closeEditModal(p) ==
  IF p.isLoading THEN p ELSE [p EXCEPT !.editModal = "none"]

\* saveProfile that never returns at its first line
BusyNever(p) == FALSE

\* saveProfile: if (isLoading) return
Busy(p) == p.isLoading

\* a saveProfile invocation ends
ProfileEnds(path, notification, resp) ==
  profileLast' = [fn |-> "saveProfile", path |-> path,
                  notification |-> notification, resp |-> resp]

\* onAuthStateChanged(auth, ...) fires without a user: the page is left for
\* the login page
ProfileSignedOut ==
  /\ ProfileOnPage
  /\ profile.ops < MaxOps
  /\ profile' = [profile EXCEPT !.user = FALSE, !.location = "login.html",
                                !.ops = @ + 1]
  /\ profileLast' = NoProfileLast
  /\ UNCHANGED otherThanProfile

\* onAuthStateChanged(auth, ...) fires with a user, up to the profile GET
ProfileSignedIn ==
  /\ ProfileOnPage
  /\ profile.ops < MaxOps
  /\ profile' = [profile EXCEPT !.user = TRUE, !.gets = @ + 1, !.ops = @ + 1]
  /\ profileLast' = NoProfileLast
  /\ UNCHANGED otherThanProfile

\* the profile GET settles: currentPhotoURL = profile.photo || null; a
\* rejected GET and a null body leave it as it is
ProfileFetched ==
  /\ ProfileOnPage
  /\ profile.gets > 0
  /\ \/ \E body \in ProfileBodies \ {Null} :
          profile' = [profile EXCEPT !.gets = @ - 1,
                                     !.currentPhotoURL = Or(body.photo, null)]
     \/ profile' = [profile EXCEPT !.gets = @ - 1]
  /\ profileLast' = NoProfileLast
  /\ UNCHANGED otherThanProfile

\* openEditModal()
OpenEditModal ==
  /\ ProfileOnPage
  /\ profile' = [profile EXCEPT !.editModal = "block"]
  /\ profileLast' = NoProfileLast
  /\ UNCHANGED otherThanProfile

\* the close button, the cancel button, the Escape key
CloseEditModal ==
  /\ ProfileOnPage
  /\ profile' = closeEditModal(profile)
  /\ profileLast' = NoProfileLast
  /\ UNCHANGED otherThanProfile

\* saveProfile while isLoading is set
SaveProfileBusy ==
  /\ ProfileOnPage
  /\ Busy(profile)
  /\ ProfileEnds("busy", "", NoResp)
  /\ UNCHANGED profile
  /\ UNCHANGED otherThanProfile

\* saveProfile with a form that validateAllFields() rejects
SaveProfileInvalid ==
  /\ ProfileOnPage
  /\ ~Busy(profile)
  /\ ProfileEnds("invalid", "Please correct the errors in the form", NoResp)
  /\ UNCHANGED profile
  /\ UNCHANGED otherThanProfile

\* saveProfile with a valid form and no auth.currentUser
SaveProfileNoUser ==
  /\ ProfileOnPage
  /\ ~Busy(profile)
  /\ ~profile.user
  /\ profile' = setLoading(setLoading(profile, TRUE), FALSE)
  /\ ProfileEnds("nouser",
                 "You need to be logged in to update your profile", NoResp)
  /\ UNCHANGED otherThanProfile

\* saveProfile with a valid form and a user, up to the PUT
SaveProfile ==
  /\ ProfileOnPage
  /\ profile.ops < MaxOps
  /\ ~Busy(profile)
  /\ profile.user
  /\ profile' = [setLoading(profile, TRUE) EXCEPT
                   !.puts = Append(@, [photo |-> Or(profile.currentPhotoURL,
                                                    null)]),
                   !.ops = @ + 1]
  /\ profileLast' = NoProfileLast
  /\ UNCHANGED otherThanProfile

\* the i-th request without its PUT
Settle(puts, i) == SubSeq(puts, 1, i - 1) \o SubSeq(puts, i + 1, Len(puts))

\* a PUT resolves: the photo, closeEditModal(), the success notification,
\* and setLoading(false) in the finally block; reading photo of a null body
\* throws into the catch block
PutResolves(i) ==
  /\ ProfileOnPage
  /\ i \in 1..Len(profile.puts)
  /\ \E body \in ProfileBodies :
       IF body = Null
       THEN /\ profile' = setLoading([profile EXCEPT
                                        !.puts = Settle(@, i)], FALSE)
            /\ ProfileEnds("failure",
                 "Failed to save profile changes. Please try again.", body)
       ELSE /\ profile' =
                 setLoading(
                   closeEditModal(
                     [profile EXCEPT
                        !.puts = Settle(@, i),
                        !.currentPhotoURL = Or(body.photo, @)]),
                   FALSE)
            /\ ProfileEnds("success", "Profile updated successfully!", body)
  /\ UNCHANGED otherThanProfile

\* a PUT rejects: the catch block, then the finally block
PutFails(i) ==
  /\ ProfileOnPage
  /\ i \in 1..Len(profile.puts)
  /\ profile' = setLoading([profile EXCEPT !.puts = Settle(@, i)], FALSE)
  /\ ProfileEnds("failure",
                 "Failed to save profile changes. Please try again.", NoResp)
  /\ UNCHANGED otherThanProfile

ProfileNext ==
  \/ ProfileSignedOut
  \/ ProfileSignedIn
  \/ ProfileFetched
  \/ OpenEditModal
  \/ CloseEditModal
  \/ SaveProfileBusy
  \/ SaveProfileInvalid
  \/ SaveProfileNoUser
  \/ SaveProfile
  \/ \E i \in 1..MaxOps : PutResolves(i)
  \/ \E i \in 1..MaxOps : PutFails(i)

\* the profile page holds no RoomManager
ProfileSpec == TopicsInit /\ [][ProfileNext]_vars

(***************************************************************************)
(* The admin pages: the auth callback, checkPageAccess, showAdminContent   *)
(***************************************************************************)
otherThanAdmin == <<roomVars, topicsCall, topicsLast, profileVars>>

\* String.prototype.includes
Contains(s, t) ==
  \E i \in 1..(Len(s) - Len(t) + 1) : SubSeq(s, i, i + Len(t) - 1) = t

\* window.location.pathname of the admin pages
AdminPaths == {"/frontend/admin/index.html", "/frontend/admin/admins.html"}

Login == "/frontend/student/pages/login.html"

\* response.status of the dashboard request
Statuses == {200, 403, 500}

\* dashboardData.admin.role; null when the admin object has no role
Roles == {null, "moderator", "superadmin", "Superadmin"}

\* the parsed body of the dashboard response: null, an object without admin,
\* an object with an admin object
DashboardBodies == {Null, [admin |-> Null]}
                     \cup {[admin |-> [role |-> r]] : r \in Roles}

\* the page is shown: it was opened and not left
AdminOnPage == admin.pathname # "" /\ admin.location = admin.pathname

\* a run of the auth callback ends
AdminEnds(outcome, delay, status, body) ==
  adminLast' = [outcome |-> outcome, delay |-> delay, status |-> status,
                body |-> body, content |-> admin.adminContent]

\* the DOMContentLoaded handler: without window.firebase the redirect to the
\* login page is scheduled, otherwise the auth callback is registered
DOMContentLoaded(path, firebase) ==
  /\ admin.pathname = ""
  /\ IF firebase
     THEN /\ admin' = [admin EXCEPT !.pathname = path, !.location = path,
                                    !.registered = TRUE]
          /\ adminLast' = NoAdminLast
     ELSE /\ admin' = [admin EXCEPT !.pathname = path, !.location = path,
                                    !.redirects = @ + 1]
          /\ AdminEnds("nofirebase", 2000, 0, NoResp)
  /\ UNCHANGED otherThanAdmin

\* the auth callback runs without a user: location.href = login
AuthCallbackNoUser ==
  /\ AdminOnPage
  /\ admin.registered
  /\ admin.events < MaxOps
  /\ admin' = [admin EXCEPT !.location = Login, !.events = @ + 1]
  /\ AdminEnds("nouser", 0, 0, NoResp)
  /\ UNCHANGED otherThanAdmin

\* the auth callback runs with a user, up to getIdToken
AuthCallback ==
  /\ AdminOnPage
  /\ admin.registered
  /\ admin.events < MaxOps
  /\ admin' = [admin EXCEPT !.runs = Append(@, "awaitToken"),
                            !.events = @ + 1]
  /\ adminLast' = NoAdminLast
  /\ UNCHANGED otherThanAdmin

\* run i of the auth callback is suspended at pc
AdminResumes(i, pc) ==
  /\ AdminOnPage
  /\ i \in 1..Len(admin.runs)
  /\ admin.runs[i] = pc

\* the catch block of the auth callback
AdminCatch(i, status, body) ==
  /\ admin' = [admin EXCEPT !.runs = Settle(@, i), !.redirects = @ + 1]
  /\ AdminEnds("error", 3000, status, body)

\* user.getIdToken(true) settles
TokenResolves(i) ==
  /\ AdminResumes(i, "awaitToken")
  /\ admin' = [admin EXCEPT !.runs[i] = "awaitFetch"]
  /\ adminLast' = NoAdminLast
  /\ UNCHANGED otherThanAdmin

TokenRejects(i) ==
  /\ AdminResumes(i, "awaitToken")
  /\ AdminCatch(i, 0, NoResp)
  /\ UNCHANGED otherThanAdmin

\* the dashboard request rejects
FetchRejects(i) ==
  /\ AdminResumes(i, "awaitFetch")
  /\ AdminCatch(i, 0, NoResp)
  /\ UNCHANGED otherThanAdmin

\* the dashboard request resolves with a response
FetchResponds(i, status) ==
  /\ AdminResumes(i, "awaitFetch")
  /\ CASE status = 200 ->
            /\ admin' = [admin EXCEPT !.runs[i] = "awaitJson"]
            /\ adminLast' = NoAdminLast
       [] status = 403 ->
            /\ admin' = [admin EXCEPT !.runs = Settle(@, i),
                                      !.redirects = @ + 1]
            /\ AdminEnds("forbidden", 2000, status, NoResp)
       [] OTHER -> AdminCatch(i, status, NoResp)
  /\ UNCHANGED otherThanAdmin

\* response.json() rejects
JsonRejects(i) ==
  /\ AdminResumes(i, "awaitJson")
  /\ AdminCatch(i, 200, NoResp)
  /\ UNCHANGED otherThanAdmin

\* response.json() resolves: without an admin object the callback throws,
\* with one adminUser is set and checkPageAccess is scheduled
JsonResolves(i, body) ==
  /\ AdminResumes(i, "awaitJson")
  /\ IF body = Null \/ body.admin = Null
     THEN AdminCatch(i, 200, body)
     ELSE /\ admin' = [admin EXCEPT
                         !.runs = Settle(@, i),
                         !.adminUser = [uid |-> currentUser.uid,
                                        role |-> Or(body.admin.role,
                                                    "moderator")],
                         !.checks = @ + 1]
          /\ AdminEnds("verified", -1, 200, body)
  /\ UNCHANGED otherThanAdmin

\* checkPageAccess that restricts no page
IsSuperadminPageNever(path) == FALSE

\* checkPageAccess: superadminOnlyPages.some(page => path.includes(page))
IsSuperadminPage(path) ==
  \E page \in {"admins.html", "/admin/admins.html",
               "/frontend/admin/admins.html"} : Contains(path, page)

\* showAdminContent()
showAdminContent(a) == [a EXCEPT !.adminContent = "block"]

\* showAccessDeniedModal()
showAccessDeniedModal(a) == [a EXCEPT !.accessDenied = TRUE]

\* checkPageAccess()
checkPageAccess(a) ==
  IF a.adminUser = Null THEN a
  ELSE IF IsSuperadminPage(a.pathname) /\ a.adminUser.role # "superadmin"
       THEN showAccessDeniedModal(a)
       ELSE showAdminContent(a)

\* the timer of 100 ms fires
CheckPageAccess ==
  /\ AdminOnPage
  /\ admin.checks > 0
  /\ admin' = checkPageAccess([admin EXCEPT !.checks = @ - 1])
  /\ adminLast' = NoAdminLast
  /\ UNCHANGED otherThanAdmin

\* a redirect timer fires: location.href = login
LoginRedirect ==
  /\ AdminOnPage
  /\ admin.redirects > 0
  /\ admin' = [admin EXCEPT !.location = Login, !.redirects = @ - 1]
  /\ adminLast' = NoAdminLast
  /\ UNCHANGED otherThanAdmin

\* closeAccessDeniedModal()
CloseAccessDeniedModal ==
  /\ AdminOnPage
  /\ admin.accessDenied
  /\ admin' = [admin EXCEPT !.accessDenied = FALSE, !.location = "index.html"]
  /\ adminLast' = NoAdminLast
  /\ UNCHANGED otherThanAdmin

AdminNext ==
  \/ \E path \in AdminPaths, firebase \in BOOLEAN :
       DOMContentLoaded(path, firebase)
  \/ AuthCallbackNoUser
  \/ AuthCallback
  \/ \E i \in 1..MaxOps : TokenResolves(i)
  \/ \E i \in 1..MaxOps : TokenRejects(i)
  \/ \E i \in 1..MaxOps : FetchRejects(i)
  \/ \E i \in 1..MaxOps, status \in Statuses : FetchResponds(i, status)
  \/ \E i \in 1..MaxOps : JsonRejects(i)
  \/ \E i \in 1..MaxOps, body \in DashboardBodies : JsonResolves(i, body)
  \/ CheckPageAccess
  \/ LoginRedirect
  \/ CloseAccessDeniedModal

\* the admin pages hold no RoomManager
AdminSpec == TopicsInit /\ [][AdminNext]_vars

(***************************************************************************)
(* Properties of the RoomManager                                           *)
(***************************************************************************)
Mutations == {"saveRoomSettings", "deleteRoom", "kickParticipant"}
Destructive == {"deleteRoom", "kickParticipant"}

MeInList(room) == includes(room.participants, currentUser.uid)

ViewModelAsBefore ==
  /\ currentRoomData = last.before.currentRoomData
  /\ participants = last.before.participants

OneErrorToast == Len(last.toasts) = 1 /\ last.toasts[1].type = "error"

\* C1: kickParticipant and deleteRoom invoked while isOwner is false issue no
\* request, show no confirmation prompt, leave participants and
\* currentRoomData unchanged and show one error notification.
C1_NotOwnerRejectedLocally ==
  /\ \A s \in Slots : calls[s].op \in Destructive => isOwner
  /\ (last.op \in Destructive /\ ~last.before.isOwner) =>
       /\ last.call.reqs = <<>>
       /\ last.call.prompts = <<>>
       /\ ViewModelAsBefore
       /\ OneErrorToast

C1_Witness ==
  /\ last.op = "kickParticipant"
  /\ ~last.before.isOwner
  /\ currentRoomData # Null
  /\ Len(participants) = 2

\* C2: saveRoomSettings invoked while isOwner is false, with a room loaded and
\* a non-empty name entered, issues no PUT and leaves the name and the
\* description of currentRoomData unchanged.
C2_SaveRequiresOwnership ==
  /\ \A s \in Slots : calls[s].op = "saveRoomSettings" => isOwner
  /\ (last.op = "saveRoomSettings" /\ ~last.before.isOwner) =>
       /\ last.call.reqs = <<>>
       /\ currentRoomData = last.before.currentRoomData

\* C3: when the fetched room record lists the current user, loadRoomData
\* issues no join POST and the membership list stays as fetched.
C3_MemberIn(c) ==
  (c.op = "loadRoomData" /\ c.data # Null /\ MeInList(c.data)) =>
    /\ ~includes(c.reqs, "POST join")
    /\ c.join = "none"
    /\ currentRoomData.participants = c.data.participants

C3_MemberSkipsJoin ==
  /\ \A s \in Slots : C3_MemberIn(calls[s])
  /\ C3_MemberIn(last.call)

C3_Witness ==
  /\ last.op = "loadRoomData"
  /\ last.outcome = "resolved"
  /\ MeInList(last.call.data)
  /\ Len(participants) = 2

\* C4: when the fetched room record does not list the current user,
\* loadRoomData issues exactly one join POST; if the POST fails the load still
\* resolves with the room record, schedules no redirect, and the participants
\* are looked up for the membership list as fetched.
C4_PreJoinList(c) ==
  /\ currentRoomData.participants = c.data.participants
  /\ IF c.data.participants = <<>>
     THEN c.pc = "awaitSelf"
     ELSE /\ c.pc \in {"awaitInfos", "awaitAll"}
          /\ c.uids = ArrayFromSet(filterBoolean(c.data.participants))

C4_NonMember(c) ==
  c.op = "loadRoomData" /\ c.data # Null /\ ~MeInList(c.data)

C4_NonMemberJoinsOnce ==
  /\ \A s \in Slots :
       C4_NonMember(calls[s]) =>
         /\ Count("POST join", calls[s].reqs) = 1
         /\ (calls[s].join = "failed" => C4_PreJoinList(calls[s]))
  /\ C4_NonMember(last.call) =>
       /\ Count("POST join", last.call.reqs) = 1
       /\ (last.call.join = "failed" =>
            /\ last.outcome = "resolved"
            /\ last.value = currentRoomData
            /\ last.redirects = 0
            /\ timers = last.before.timers
            /\ last.toasts = <<>>
            /\ C4_PreJoinList(last.call))

C4_Witness ==
  /\ last.op = "loadRoomData"
  /\ last.call.join = "failed"
  /\ last.outcome = "resolved"
  /\ Len(participants) = 1
  /\ participants[1].id # currentUser.uid

\* C5: deleteRoom and kickParticipant issue the DELETE only after the prompt
\* of the same invocation was answered yes; when it is answered no, no request
\* is issued and participants and currentRoomData are unchanged.
C5_ConfirmBeforeDelete ==
  /\ \A s \in Slots :
       (calls[s].op \in Destructive /\ calls[s].reqs # <<>>) =>
         calls[s].prompts = <<TRUE>>
  /\ last.op \in Destructive =>
       /\ (last.call.reqs # <<>> => last.call.prompts = <<TRUE>>)
       /\ (last.call.prompts = <<FALSE>> =>
            /\ last.call.reqs = <<>>
            /\ ViewModelAsBefore)

C5_Witness ==
  /\ last.op = "kickParticipant"
  /\ last.call.prompts = <<FALSE>>
  /\ Len(participants) = 2

\* C6: a mutation whose request fails leaves the local state unchanged (name
\* and description for saveRoomSettings, participants for kickParticipant, no
\* redirect for deleteRoom) and shows an error notification.
C6_FailureLeavesState ==
  (last.op \in Mutations /\ last.http = "failed") =>
    /\ ViewModelAsBefore
    /\ last.redirects = 0
    /\ timers = last.before.timers
    /\ OneErrorToast

C6_Witness ==
  /\ last.op = "kickParticipant"
  /\ last.http = "failed"
  /\ \E i \in 1..Len(participants) : participants[i].id = last.call.userId

\* C7: when the request of saveRoomSettings, deleteRoom or kickParticipant
\* fails with an error that carries a structured server message (body.error or
\* body.message) and a transport message, the notification shows the
\* structured server message.
C7_Prefix(op) ==
  IF op = "saveRoomSettings" THEN "Failed to save settings: "
  ELSE IF op = "deleteRoom" THEN "Could not delete room: "
  ELSE "Could not remove participant: "

C7_Structured(err) ==
  IF err.body.present THEN Or(err.body.error, err.body.message) ELSE ""

C7_StructuredMessagePreferred ==
  (/\ last.op \in Mutations
   /\ last.http = "failed"
   /\ ~Falsy(C7_Structured(last.err))
   /\ ~Falsy(last.err.message)) =>
    /\ Len(last.toasts) = 1
    /\ last.toasts[1].msg = C7_Prefix(last.op) \o C7_Structured(last.err)

\* C8: after a successful kickParticipant(u) participants is the previous
\* sequence without the records of id u, in the same order; after a
\* successful saveRoomSettings the name and the description are the trimmed
\* values of the form and no other field of the room changed; neither issues
\* a GET of the room.
RECURSIVE C8_Others(_, _)
C8_Others(ps, u) ==
  IF ps = <<>> THEN <<>>
  ELSE LET rest == C8_Others(Tail(ps), u)
       IN IF Head(ps).id = u THEN rest ELSE <<Head(ps)>> \o rest

C8_SuccessUpdatesLocally ==
  /\ (last.op = "kickParticipant" /\ last.http = "ok") =>
       /\ participants = C8_Others(last.before.participants, last.call.userId)
       /\ last.call.reqs = <<"DELETE participant">>
  /\ (last.op = "saveRoomSettings" /\ last.http = "ok") =>
       /\ currentRoomData =
            [last.before.currentRoomData EXCEPT
               !.name = trim(last.call.nameInput),
               !.description = IF last.call.descInput = "absent" THEN ""
                               ELSE trim(last.call.descInput)]
       /\ currentRoomData.name # ""
       /\ last.call.reqs = <<"PUT room">>

C8_Witness ==
  /\ last.op = "kickParticipant"
  /\ last.http = "ok"
  /\ Len(last.before.participants) = 2
  /\ Len(participants) = 1

\* C9: when the room GET of loadRoomData rejects or resolves without a body,
\* isLoading becomes false, one error notification is shown, one redirect is
\* scheduled, the promise rejects with the error of the failure, and
\* currentRoomData, isOwner and participants are as they were when
\* loadRoomData was called.
C9_Failed ==
  (last.op = "loadRoomData" /\ last.http \in {"failed", "nobody"}) =>
    /\ last.outcome = "rejected"
    /\ last.error = IF last.http = "failed" THEN last.err.message
                    ELSE "No room data returned"
    /\ ~isLoading
    /\ OneErrorToast
    /\ last.redirects = 1
    /\ timers = last.before.timers + 1
    /\ ViewModelAsBefore
    /\ isOwner = last.before.isOwner

C9_Started ==
  (\E s \in Slots : calls[s].pc = "idle" /\ calls'[s].pc = "awaitGet") =>
    UNCHANGED <<currentRoomData, isOwner, participants>>

C9_FetchFailureHandling == []C9_Failed /\ [][C9_Started]_vars

C9_Witness ==
  /\ last.op = "loadRoomData"
  /\ last.http = "nobody"
  /\ currentRoomData # Null
  /\ Len(participants) = 2

\* C10: with no room id in the URL loadRoomData rejects without any request,
\* after setting isLoading to false, showing the notification and scheduling
\* the redirect.
C10_NoRoomIdNoRequest ==
  Falsy(roomParam) =>
    /\ \A s \in Slots : calls[s].op # "loadRoomData"
    /\ (last.op = "loadRoomData" =>
         /\ last.outcome = "rejected"
         /\ last.call.reqs = <<>>
         /\ ~isLoading
         /\ OneErrorToast
         /\ last.redirects = 1
         /\ timers = last.before.timers + 1)

C10_Witness ==
  /\ Falsy(roomParam)
  /\ last.op = "loadRoomData"
  /\ last.outcome = "rejected"

Ids(ps) == {ps[i].id : i \in 1..Len(ps)}

LoadResolved == last.op = "loadRoomData" /\ last.outcome = "resolved"

\* C11: in every reachable state no two records of participants have the
\* same id, whatever the membership list (repeated ids, empty ids).
C11_NoDuplicateIds ==
  \A i, j \in 1..Len(participants) :
    i # j => participants[i].id # participants[j].id

C11_Witness ==
  /\ currentRoomData # Null
  /\ \E x \in Uids : Count(x, currentRoomData.participants) > 1
  /\ Len(participants) = 2

\* C12: when the join POST of a loadRoomData call succeeded (with or without
\* a response body), the participants held when the call resolves include a
\* record of the current user.
C12_JoinedUserPresent ==
  (LoadResolved /\ last.call.join \in {"ok", "nobody"}) =>
    currentUser.uid \in Ids(participants)

\* C13: when loadRoomData resolves, a record of participants is the host
\* exactly when its id is the creator of the room.
C13_HostIsCreator ==
  LoadResolved =>
    \A i \in 1..Len(participants) :
      participants[i].isHost = (participants[i].id = currentRoomData.creator)

C13_Witness ==
  /\ LoadResolved
  /\ currentRoomData.creator = "u1"
  /\ Len(participants) = 2
  /\ participants[1].id = "u1" /\ participants[1].isHost
  /\ participants[2].id = "user-0000002" /\ ~participants[2].isHost

\* C14: isOwner is false while no room record is loaded, and with a room
\* record loaded it is true exactly when the creator is the current user.
C14_OwnerIsCreator ==
  IF currentRoomData = Null THEN ~isOwner
  ELSE isOwner = (currentRoomData.creator = currentUser.uid)

C14_Witness ==
  /\ LoadResolved
  /\ isOwner
  /\ Len(participants) = 2

\* C15: only updateParticipantCallStatus changes an inCall flag: a record
\* that appears has the flag false, and a participant shown "In Call" who is
\* in participants after a step of any other operation still has it true.
C15_Step ==
  \/ \E u \in Uids, b \in BOOLEAN : UpdateParticipantCallStatus(u, b)
  \/ /\ \A j \in 1..Len(participants') :
          participants'[j].id \notin Ids(participants) =>
            ~participants'[j].inCall
     /\ \A i \in 1..Len(participantsList), j \in 1..Len(participants') :
          (/\ participantsList[i].status = "In Call"
           /\ participants'[j].id = participantsList[i].id) =>
            participants'[j].inCall

C15_InCallOnlyByCallStatus == [][C15_Step]_vars

\* C16: when the enrichment of the membership ids ends, there is exactly one
\* record per distinct non-empty id, in order; an id whose single lookup
\* failed has the fallback record (first 8 characters of the id, avatar "U",
\* photo null) and every other id has a record built from its display info.
C16_Photos == {null, "me.png", "p2.png"} \cup DbPhotos

C16_Enriched(c) ==
  /\ c.uids = ArrayFromSet(filterBoolean(currentRoomData.participants))
  /\ Len(participants) = Len(c.uids)
  /\ \A i \in 1..Len(c.uids) :
       LET uid == c.uids[i]
           creator == currentRoomData.creator
       IN /\ participants[i].id = uid
          /\ (c.stage[i] = "fallback" =>
               /\ participants[i] = Fallback(uid, creator)
               /\ participants[i].name = substring(uid, 8)
               /\ participants[i].avatar = "U"
               /\ participants[i].photo = null)
          /\ (c.stage[i] # "fallback" =>
               \E info \in {DisplayInfo(uid), SingleInfo(uid)},
                  photo \in C16_Photos :
                 participants[i] = Built(uid, info, photo, creator))

C16_FallbackPerFailedLookup ==
  (last.op \in {"loadRoomData", "loadParticipantsInfo"}
     /\ last.call.pc = "awaitAll") => C16_Enriched(last.call)

C16_Witness ==
  /\ last.op \in {"loadRoomData", "loadParticipantsInfo"}
  /\ last.call.pc = "awaitAll"
  /\ Len(last.call.uids) = 2
  /\ last.call.stage[1] = "fallback"
  /\ last.call.stage[2] = "done"
  /\ participants[2].name = "Bob"

(***************************************************************************)
(* Properties of topicsClient                                              *)
(***************************************************************************)
LikeSettled == topicsLast.fn = "togglePostLike"

\* C17: togglePostLike with a missing or empty postId rejects and no request
\* is ever issued for it.
C17_MissingPostIdFailsLocally ==
  /\ topicsCall.fn = "togglePostLike" => ToBoolean(topicsCall.arg)
  /\ (LikeSettled /\ ~ToBoolean(topicsLast.arg)) =>
       /\ topicsLast.outcome = "rejected"
       /\ topicsLast.error = "postId required"
       /\ topicsLast.reqs = <<>>
       /\ topicsLast.http = "none"

C17_Witness ==
  /\ LikeSettled
  /\ topicsLast.arg = Str("")
  /\ topicsLast.outcome = "rejected"

\* C18: an invocation of togglePostLike with a non-empty postId issues
\* exactly one POST, whether the POST rejects, resolves with a valid body or
\* resolves with an invalid one.
C18_OnePostPerToggle ==
  /\ topicsCall.fn = "togglePostLike" => topicsCall.reqs = <<"POST like">>
  /\ (LikeSettled /\ ToBoolean(topicsLast.arg)) =>
       /\ topicsLast.reqs = <<"POST like">>
       /\ topicsLast.http \in {"ok", "failed"}

C18_Witness ==
  /\ LikeSettled
  /\ topicsLast.http = "failed"
  /\ topicsLast.outcome = "rejected"
  /\ topicsLast.reqs = <<"POST like">>

\* C19: when the like POST resolves, togglePostLike rejects if the body is not
\* a JSON object; otherwise it returns liked = (the body's liked is the boolean
\* true) and likes = the body's likes if that is a number, else 0.
C19_LikeResultCoerced ==
  (LikeSettled /\ topicsLast.http = "ok") =>
    IF "obj" \notin DOMAIN topicsLast.resp
    THEN topicsLast.outcome = "rejected"
    ELSE /\ topicsLast.outcome = "resolved"
         /\ Get(topicsLast.value, "liked")
              = Bool(Get(topicsLast.resp, "liked") = Bool(TRUE))
         /\ Get(topicsLast.value, "likes")
              = IF "num" \in DOMAIN Get(topicsLast.resp, "likes")
                THEN Get(topicsLast.resp, "likes") ELSE Num(0)

\* C20: when the posts GET resolves, whatever the body, getTopicPosts resolves
\* with an array in which every record has all the canonical fields, each
\* with the element's value or its default.
C20_Fields ==
  {"id", "title", "content", "author", "author_id", "userId", "authorId",
   "created_at", "created", "likes", "comments", "author_avatar"}

C20_Canonical(rec) ==
  /\ "obj" \in DOMAIN rec
  /\ DOMAIN rec.obj = C20_Fields
  /\ \A k \in {"title", "content"} : rec.obj[k] = OrElse(rec.obj[k], Str(""))
  /\ rec.obj.author = OrElse(rec.obj.author, Str("Anonymous"))
  /\ \A k \in {"author_id", "userId", "authorId", "author_avatar"} :
       rec.obj[k] = OrElse(rec.obj[k], Null)
  /\ \A k \in {"created_at", "created"} : ToBoolean(rec.obj[k])
  /\ TypeOf(rec.obj.likes) = "number"
  /\ rec.obj.comments = OrElse(rec.obj.comments, Num(0))

C20_PostsNeverRaise ==
  (topicsLast.fn = "getTopicPosts" /\ topicsLast.http = "ok") =>
    /\ topicsLast.outcome = "resolved"
    /\ IsArray(topicsLast.value)
    /\ \A i \in 1..Len(topicsLast.value.arr) :
         C20_Canonical(topicsLast.value.arr[i])

PostsResolved ==
  topicsLast.fn = "getTopicPosts" /\ topicsLast.outcome = "resolved"

\* the sequence the records are to be taken from: the payload when it is an
\* array, its posts property when that is an array, the payload alone when it
\* is a single object
C21_Sequence(resp) ==
  IF "arr" \in DOMAIN resp THEN resp.arr
  ELSE IF "obj" \notin DOMAIN resp THEN <<>>
  ELSE IF "posts" \in DOMAIN resp.obj /\ "arr" \in DOMAIN resp.obj.posts
       THEN resp.obj.posts.arr
  ELSE <<resp>>

C21_Objects(resp) ==
  SelectSeq(C21_Sequence(resp), LAMBDA p : "obj" \in DOMAIN p)

C22_LikesOnlyNumbers ==
  PostsResolved =>
    LET objects == C21_Objects(topicsLast.resp)
        records == topicsLast.value.arr
    IN \A i \in 1..Len(records) :
         /\ i <= Len(objects)
         /\ records[i].obj.likes =
              IF "likes" \in DOMAIN objects[i].obj
                   /\ "num" \in DOMAIN objects[i].obj.likes
              THEN objects[i].obj.likes ELSE Num(0)

C22_Witness ==
  /\ PostsResolved
  /\ Len(topicsLast.value.arr) = 2
  /\ Get(C21_Objects(topicsLast.resp)[1], "likes") = Str("3")
  /\ topicsLast.value.arr[1].obj.likes = Num(0)
  /\ Get(C21_Objects(topicsLast.resp)[2], "likes") = Undefined
  /\ topicsLast.value.arr[2].obj.likes = Num(0)

(***************************************************************************)
(* Properties of the RoomManager: order and concurrency                    *)
(***************************************************************************)
C23_Lookups == {"getUserDisplayInfo", "getUserDisplayInfos"}

\* the requests of one loadRoomData so far are in the order of its steps
C23_Ordered(c) ==
  c.op = "loadRoomData" =>
    /\ c.reqs # <<>> => c.reqs[1] = "GET room"
    /\ \A i \in 1..Len(c.reqs) :
         /\ c.reqs[i] = "POST join" => c.data # Null
         /\ c.reqs[i] \in C23_Lookups =>
              /\ c.data # Null
              /\ includes(c.data.participants, currentUser.uid)
                   \/ /\ c.join # "none"
                      /\ \E j \in 1..(i - 1) : c.reqs[j] = "POST join"

C23_InOrder ==
  /\ \A s \in Slots : C23_Ordered(calls[s])
  /\ last.op = "loadRoomData" => C23_Ordered(last.call)
  /\ LoadResolved =>
       \E i \in 1..Len(last.call.reqs) : last.call.reqs[i] \in C23_Lookups

\* a step of a loadRoomData that is still running afterwards renders nothing
C23_RenderLast ==
  \A s \in Slots :
    (/\ calls[s].op = "loadRoomData"
     /\ calls'[s].op = "loadRoomData"
     /\ calls'[s] # calls[s]) => participantsList' = participantsList

\* C23: within one loadRoomData() the steps run in the order fetch,
\* auto-join, enrichment, render: the join POST is never issued before the
\* room GET resolved, no participant lookup is issued before the join attempt
\* settled, and the list is rendered only after enrichment.
C23_FetchJoinEnrichRender == []C23_InOrder /\ [][C23_RenderLast]_vars

C23_Witness ==
  /\ LoadResolved
  /\ last.call.reqs = <<"GET room", "POST join", "getUserDisplayInfos">>
  /\ last.call.join = "ok"
  /\ Len(participantsList) = 2

C24_Looking(c) == c.pc \in {"awaitInfos", "awaitAll"}

\* while lookups are pending nothing is assigned; once Promise.all resolved
\* every callback has returned and the records follow the membership list
C24_AssignedWhenAllSettled ==
  /\ \A s \in Slots : C24_Looking(calls[s]) => participants = <<>>
  /\ (last.op \in {"loadRoomData", "loadParticipantsInfo"}
        /\ last.call.pc = "awaitAll") =>
       /\ AllDone(last.call.stage)
       /\ Len(last.call.order) = Len(last.call.uids)
       /\ {last.call.order[k] : k \in 1..Len(last.call.order)}
            = 1..Len(last.call.uids)
       /\ [i \in 1..Len(participants) |-> participants[i].id]
            = ArrayFromSet(filterBoolean(currentRoomData.participants))
       /\ participantsList = Rendered(participants, isOwner)

\* a step of the lookups that leaves some lookup pending renders nothing
C24_RenderedWhenAllSettled ==
  \A s \in Slots :
    (C24_Looking(calls[s]) /\ C24_Looking(calls'[s])
       /\ calls'[s] # calls[s]) =>
      UNCHANGED <<participants, participantsList>>

\* C24: the per-participant lookups run concurrently and settle in any order;
\* participants is assigned and rendered only after every lookup has settled,
\* and its order is the order of the deduplicated membership list, whatever
\* the order of completion.
C24_OrderIndependentOfCompletion ==
  []C24_AssignedWhenAllSettled /\ [][C24_RenderedWhenAllSettled]_vars

C24_Witness ==
  /\ last.op \in {"loadRoomData", "loadParticipantsInfo"}
  /\ last.call.pc = "awaitAll"
  /\ last.call.order = <<2, 1>>
  /\ Len(participants) = 2
  /\ participants[1].id = last.call.uids[1]

C25_Loading == \E s \in Slots : calls[s].op = "loadRoomData"

C25_LoadSettled == last.op = "loadRoomData"

\* whenever loadRoomData settles isLoading is false, and what it resolves
\* with is currentRoomData
C25_Settled ==
  /\ C25_LoadSettled => ~isLoading
  /\ LoadResolved => last.value = currentRoomData /\ last.value # Null

\* C25: when every collaborator call eventually settles, a loadRoomData that
\* was started eventually settles (unless the page is left first); whenever
\* it settles isLoading is false, and when it resolves its result is
\* currentRoomData.
C25_LoadSettles ==
  /\ []C25_Settled
  /\ C25_Loading ~> (C25_LoadSettled \/ ~OnPage)

C25_Witness ==
  /\ LoadResolved
  /\ last.value = currentRoomData
  /\ Len(last.call.uids) = 2
  /\ last.before.currentRoomData # Null
  /\ OnPage

\* the page is shown and another invocation can be started
C26_CanStart ==
  /\ OnPage
  /\ ops < MaxOps
  /\ \E s \in Slots : calls[s].pc = "idle"

\* C26: RoomManager does not guard against double submission: whatever
\* requests are in flight, a confirmed kickParticipant(u) of the owner sends
\* its DELETE, so that two DELETE requests for the same u can be in flight at
\* once; likewise a second deleteRoom and a second saveRoomSettings.
C26_NoDoubleSubmissionGuard ==
  /\ C26_CanStart =>
       /\ isOwner =>
            \A u \in Uids : ENABLED (\E s \in Slots : KickParticipant(s, u))
       /\ isOwner => ENABLED (\E s \in Slots : DeleteRoom(s))
       /\ currentRoomData # Null =>
            ENABLED (\E s \in Slots : SaveRoomSettings(s))
  /\ \A s \in Slots :
       /\ calls[s].op = "kickParticipant" =>
            calls[s].reqs = <<"DELETE participant">>
       /\ calls[s].op = "deleteRoom" => calls[s].reqs = <<"DELETE room">>
       /\ calls[s].op = "saveRoomSettings" => calls[s].reqs = <<"PUT room">>

C26_Witness ==
  /\ \A s \in Slots :
       /\ calls[s].op = "kickParticipant"
       /\ calls[s].pc = "awaitKick"
       /\ calls[s].userId = "user-0000002"
       /\ calls[s].reqs = <<"DELETE participant">>
  /\ Len(participants) = 2

C27_Kicked == last.op = "kickParticipant" /\ last.http = "ok"

\* C27: after a successful kickParticipant(u), u is in no part of the
\* membership state of the view-model: neither in participants nor in
\* currentRoomData.participants, from which loadParticipantsInfo() rebuilds
\* the list.
C27_KickRemovesEverywhere ==
  C27_Kicked =>
    /\ last.call.userId \notin Ids(participants)
    /\ ~includes(currentRoomData.participants, last.call.userId)

(***************************************************************************)
(* Properties of the profile page                                          *)
(***************************************************************************)
\* a saveProfile invocation that got past its first line has ended
C28_Ended ==
  /\ profileLast.fn = "saveProfile"
  /\ profileLast.path \in {"invalid", "nouser", "success", "failure"}

\* C28: on the profile page isLoading is true exactly while a profile PUT is
\* in flight, at most one PUT is in flight, and when saveProfile has ended
\* (success, request failure, no signed-in user) isLoading is false.
C28_LoadingWhilePutInFlight ==
  /\ profile.isLoading <=> profile.puts # <<>>
  /\ Len(profile.puts) <= 1
  /\ C28_Ended => ~profile.isLoading
  /\ profile.saveBtnDisabled = profile.isLoading

C28_Witness ==
  /\ profileLast.fn = "saveProfile"
  /\ profileLast.path = "busy"
  /\ profile.isLoading
  /\ Len(profile.puts) = 1

\* C29: when the PUT of saveProfile() succeeded, the edit modal is closed by
\* the time saveProfile has finished.
C29_ModalClosedAfterSave ==
  (profileLast.fn = "saveProfile" /\ profileLast.path = "success") =>
    profile.editModal = "none"

(***************************************************************************)
(* Properties of the admin pages                                           *)
(***************************************************************************)
C30_Failed == adminLast.outcome \in {"nouser", "forbidden", "error"}

\* the content is visible only with an adminUser; a run that set adminUser
\* had a successful response with an admin object, whose role it took, or
\* "moderator" without one; a run that failed showed nothing and is followed
\* by the redirect to the login page
C30_Verified ==
  /\ admin.adminContent = "block" => admin.adminUser # Null
  /\ adminLast.outcome = "verified" =>
       /\ adminLast.status = 200
       /\ adminLast.body # Null
       /\ adminLast.body.admin # Null
       /\ admin.adminUser.role
            = (IF adminLast.body.admin.role = null THEN "moderator"
               ELSE adminLast.body.admin.role)
  /\ C30_Failed =>
       /\ admin.adminContent = adminLast.content
       /\ IF adminLast.outcome = "nouser" THEN admin.location = Login
          ELSE admin.redirects > 0 /\ adminLast.delay > 0
  /\ (adminLast.outcome = "forbidden") = (adminLast.status = 403)

\* the step that shows the content is a checkPageAccess with an adminUser
\* whose role is superadmin when the path contains admins.html; adminUser
\* changes only in a run that ends verified
C30_Shown ==
  /\ admin'.adminContent # admin.adminContent =>
       /\ admin'.adminContent = "block"
       /\ admin.checks > 0
       /\ admin.adminUser # Null
       /\ Contains(admin.pathname, "admins.html") =>
            admin.adminUser.role = "superadmin"
  /\ admin'.adminUser # admin.adminUser => adminLast'.outcome = "verified"

====
